---- MODULE Spec2Model ----
(***************************************************************************)
(* Girok diary backend (src/server.js and its hashed-credential variant    *)
(* src/unnamed/part_000): the document store, and the Express handlers as  *)
(* processes whose steps are the store round trips (one step per await).   *)
(***************************************************************************)
EXTENDS Integers, Sequences, FiniteSets, TLC

\* ------------------------------------------------------------------ bounds
MaxReq == 2          \* concurrent requests of one handler kind (slots)
MaxDiaryId == 2      \* diaries ever created
MaxCommentId == 2    \* comments ever created
MaxLikeId == 3       \* likes ever created
MaxAnswerId == 3     \* answers ever created
MaxQuestionId == 3   \* questions ever created
MaxNoticeId == 3     \* notices ever created

Slots == 1..MaxReq
DelSlots == {1}      \* DELETE /diary/:id requests run one at a time
RegSlots == {1, 2}   \* two POST /register requests may overlap
DetailSlots == {1}   \* GET /admin/user/:username requests run one at a time
ListSlots == {1}     \* GET /diaries/:viewer requests run one at a time
LoginSlots == {1}    \* POST /login requests run one at a time
ReserveSlots == {1}  \* POST /admin/questions/reserve requests, one at a time
HistorySlots == {1}  \* GET /questions/history/:username requests, one at a time
NoticeSlots == {1}   \* GET /notices requests run one at a time
ProfileSlots == {1}  \* POST /profile/update requests run one at a time
InfoSlots == {1}     \* GET /user/info/:username requests run one at a time
EditSlots == {1}     \* PUT /diary/:id requests run one at a time
DiaryIds == 1..MaxDiaryId

\* ------------------------------------------------------------ value sets
Variants == {"server.js", "part_000"}
Admin == "admin"
UserNames == {"admin", "alice", "bob"}
Members == {"alice", "bob"}
Absent == "<absent>"                  \* an undefined field of a request
NullField == "<null>"                 \* a field of a request sent as null
TargetIds == {1, 2}                   \* the diaries that requests name
AskedIds == {1}                       \* the questions that requests name
Moods == {"happy", "sad"}
Empty == ""                           \* ?mood= : a field sent without a value
Contents == {"c1", "c2"}
Secrets == {"pw1", "pw2"}
WelcomeBio == "bio0"                  \* the fixed welcome bio
NoImage == "null"                     \* profile_img: null
Unset == -1                           \* an undefined number of a request
Today == "today"                      \* getKSTDate()
Yesterday == "yesterday"              \* getKSTDate() of an earlier day
\* A date of the Question collection is the sequence of its characters:
\* getKSTDate() on the day the server first connects.
QuestionDay == <<"2", "0", ".", " ", "0", "1", ".", " ", "0", "1">>
\* connectDB: Question.create({ text: ..., date: getKSTDate() })
FirstQuestion == [_id |-> 1, text |-> "q0", date |-> QuestionDay]
Times == {"t1", "t2"}                 \* getKSTDate(true)
\* req.body of POST /register: a field may be missing, null or empty
RegisterBodies ==
  [username : Members, password : Secrets]
    \cup [username : {"bob"}, password : {Absent, NullField, Empty}]
    \cup [username : {Absent, NullField, Empty}, password : {"pw1"}]
\* x-forwarded-for (or the socket address) as the list of its entries
IpHeaders == {<<"10.0.0.1">>, <<"10.0.0.2", "10.0.0.9">>}

VARIABLES
  variant,      \* which of the two server files runs
  users,        \* User collection
  diaries,      \* Diary collection
  comments,     \* Comment collection
  likes,        \* Like collection
  answers,      \* Answer collection
  questions,    \* Question collection
  nextId,       \* per collection: the next _id (ObjectIds grow with creation)
  likeReq,      \* POST /diary/like requests
  delReq,       \* DELETE /diary/:id requests
  ansReq,       \* POST /answer requests
  regReq,       \* POST /register requests
  detailReq,    \* GET /admin/user/:username requests
  listReq,      \* GET /diaries/:viewer requests
  notices,      \* Notice collection
  loginReq,     \* POST /login requests
  reserveReq,   \* POST /admin/questions/reserve requests
  historyReq,   \* GET /questions/history/:username requests
  noticeReq,    \* GET /notices requests
  profileReq,   \* POST /profile/update requests
  infoReq,      \* GET /user/info/:username requests
  editReq       \* PUT /diary/:id requests

store == <<users, diaries, comments, likes, answers, questions, notices,
          nextId>>
otherReqs == <<loginReq, reserveReq, historyReq, noticeReq, profileReq,
               infoReq, editReq>>
reqs == <<likeReq, delReq, ansReq, regReq, detailReq, listReq, otherReqs>>
vars == <<variant, users, diaries, comments, likes, answers, questions, nextId,
          likeReq, delReq, ansReq, regReq, detailReq, listReq, notices,
          loginReq, reserveReq, historyReq, noticeReq, profileReq, infoReq,
          editReq>>

\* An optional document (findOne's null) is a set of at most one document.
Null == {}
The(s) == CHOOSE x \in s : TRUE

\* First document of a match in natural (insertion = _id) order.
First(m) == IF m = {} THEN Null
            ELSE {CHOOSE x \in m : \A y \in m : x._id <= y._id}

\* ------------------------------------------------------------ Like store
\* Like.findOne({ diary_id, user })
Like_findOne(L, d, u) == First({l \in L : l.diary_id = d /\ l.user = u})

\* Like.create accepted whatever is stored (no unique index)
Like_duplicate_noindex(L, d, u) == FALSE
\* likeSchema.index({ diary_id: 1, user: 1 }, { unique: true })
Like_duplicate(L, d, u) == \E l \in L : l.diary_id = d /\ l.user = u

\* Like.deleteOne that removes every Like of the diary
Like_deleteOne_diary(L, x) == {l \in L : \A e \in x : l.diary_id # e.diary_id}
\* Like.deleteOne({ _id: exists._id })
Like_deleteOne(L, x) == {l \in L : \A e \in x : l._id # e._id}

\* Like.deleteMany({ diary_id })
Like_deleteMany(L, d) == {l \in L : l.diary_id # d}
\* Comment.deleteOne in place of deleteMany: only the first match goes
Comment_deleteMany_first(C, d) == C \ First({c \in C : c.diary_id = d})
\* Comment.deleteMany({ diary_id })
Comment_deleteMany(C, d) == {c \in C : c.diary_id # d}
\* Diary.findById in place of findByIdAndDelete: nothing is removed
Diary_findByIdAndDelete_keep(D, id) == D
\* Diary.findByIdAndDelete(id)
Diary_findByIdAndDelete(D, id) == {x \in D : x._id # id}

\* ---------------------------------------------------------- Answer store
\* Answer.findOne that matches the question alone
Answer_findOne_anyUser(A, q, u) == First({a \in A : a.question_id = q})
\* Answer.findOne({ question_id, user }): the first match in natural order
Answer_findOne(A, q, u) == First({a \in A : a.question_id = q /\ a.user = u})

\* Answer.create behind a unique (question_id, user) index
Answer_create_unique(A, nid, q, u, c) ==
  IF \E a \in A : a.question_id = q /\ a.user = u
  THEN [ok |-> FALSE, answers |-> A, nid |-> nid]
  ELSE [ok |-> TRUE, nid |-> nid + 1,
        answers |-> A \cup {[_id |-> nid, question_id |-> q, user |-> u,
                              content |-> c, date |-> Today]}]
\* Answer.create({ question_id, user, content, date }): answerSchema has no index
Answer_create(A, nid, q, u, c) ==
  [ok |-> TRUE, nid |-> nid + 1,
   answers |-> A \cup {[_id |-> nid, question_id |-> q, user |-> u,
                         content |-> c, date |-> Today]}]

\* exists.content = content; exists.date = getKSTDate(); exists.save():
\* save writes the paths whose value differs from the one that was read
\* (content, date), to the document with the _id that was read
Answer_save(A, exists, c) ==
  {IF \E e \in exists : e._id = a._id
   THEN [a EXCEPT
           !.content = IF \E e \in exists : e.content # c THEN c ELSE @,
           !.date = IF \E e \in exists : e.date # Today THEN Today ELSE @]
   ELSE a : a \in A}

\* ------------------------------------------------------------ User store
\* bcrypt.hash(password, 10): not the password itself
Hash(p) == "$2b$" \o p
\* bcrypt.compare(password, hash)
Compare(p, h) == p # Absent /\ h = Hash(p)

\* required: true on a String path refuses undefined, null and ""
Required(v) == v \notin {Absent, NullField, Empty}
\* required: true on username and on password
User_valid(doc) == Required(doc.username) /\ Required(doc.password)

\* User.create with no unique index on username
User_duplicate_noindex(U, name) == FALSE
\* username: { unique: true }
User_duplicate(U, name) == \E x \in U : x.username = name

\* User.create that replaces the stored user of that name
User_create_replace(U, doc) ==
  IF ~User_valid(doc) THEN [ok |-> FALSE, users |-> U]
  ELSE [ok |-> TRUE, users |-> {x \in U : x.username # doc.username} \cup {doc}]
\* User.create(doc): validation, then the insert under the unique index
User_create(U, doc) ==
  IF ~User_valid(doc) \/ User_duplicate(U, doc.username)
  THEN [ok |-> FALSE, users |-> U]
  ELSE [ok |-> TRUE, users |-> U \cup {doc}]

\* User.findOne({ username })
User_findOne(U, name) == First({x \in U : x.username = name})

\* ----------------------------------------------------------- Diary store
\* let query = {}; if (mood && mood !== 'all') query.mood = mood;
\* if (viewer !== 'admin') query.$or = [{ is_private: 0 }, { user: viewer }]
\* (an absent filter is the field set to Absent, $or absent is or = FALSE)
listQuery(viewer, mood) ==
  [mood |-> IF mood # Absent /\ mood # Empty /\ mood # "all"
            THEN mood ELSE Absent,
   or |-> viewer # Admin, user |-> viewer]

\* a query whose $or keeps public diaries only
Diary_matches_public(d, q) ==
  /\ q.mood # Absent => d.mood = q.mood
  /\ q.or => d.is_private = 0
\* a query without the $or
Diary_matches_all(d, q) == q.mood # Absent => d.mood = q.mood
\* MongoDB's match of a document against the query
Diary_matches(d, q) ==
  /\ q.mood # Absent => d.mood = q.mood
  /\ q.or => (d.is_private = 0 \/ d.user = q.user)

\* .sort({ _id: 1 }): the documents as a sequence, ascending _id
RECURSIVE SortAsc(_)
SortAsc(S) ==
  IF S = {} THEN <<>>
  ELSE LET x == CHOOSE x \in S : \A y \in S : x._id <= y._id
       IN <<x>> \o SortAsc(S \ {x})
Reverse(q) == [i \in 1..Len(q) |-> q[Len(q) + 1 - i]]

\* a find that ignores the sort option
Diary_find_asc(D, q, sort) == SortAsc({d \in D : Diary_matches(d, q)})
\* let sortOption = { _id: -1 }; if (sort === 'oldest') sortOption = { _id: 1 }
\* Diary.find(query).sort(sortOption).lean()
Diary_find(D, q, sort) ==
  LET m == SortAsc({d \in D : Diary_matches(d, q)})
  IN IF sort = "oldest" THEN m ELSE Reverse(m)

\* Diary.findByIdAndUpdate(id, { content, mood, is_private })
\* a findByIdAndUpdate that replaces the document by the update
Diary_findByIdAndUpdate_replace(D, id, content, mood, is_private) ==
  {IF d._id = id
   THEN [d EXCEPT !.content = content, !.mood = mood,
                  !.is_private = is_private, !.image = NoImage]
   ELSE d : d \in D}
\* the update is a $set of the keys that are defined; no upsert
Diary_findByIdAndUpdate(D, id, content, mood, is_private) ==
  {IF d._id = id
   THEN [d EXCEPT !.content = IF content # Absent THEN content ELSE @,
                  !.mood = IF mood # Absent THEN mood ELSE @,
                  !.is_private = IF is_private # Unset THEN is_private ELSE @]
   ELSE d : d \in D}

Liked(L, d, u) == \E l \in L : l.diary_id = d /\ l.user = u
\* a count over every diary's likes
LikeCount_all(L, d) == Cardinality(L)
\* Like.countDocuments({ diary_id })
LikeCount(L, d) == Cardinality({l \in L : l.diary_id = d})
LikePairs(L) == {<<l.diary_id, l.user>> : l \in L}

\* ------------------------------------------------------ request bookkeeping
Ended == {"idle", "done", "unhandled", "stopped"}
InFlight(q) == {r \in DOMAIN q : q[r].pc \notin Ended}
Quiet == /\ InFlight(likeReq) = {} /\ InFlight(delReq) = {}
         /\ InFlight(ansReq) = {} /\ InFlight(regReq) = {}
         /\ InFlight(detailReq) = {} /\ InFlight(listReq) = {}
         /\ InFlight(loginReq) = {} /\ InFlight(reserveReq) = {}
         /\ InFlight(historyReq) = {} /\ InFlight(noticeReq) = {}
         /\ InFlight(profileReq) = {} /\ InFlight(infoReq) = {}
         /\ InFlight(editReq) = {}

\* ------------------------------------------------- POST /diary/like (231-241)
\* The handler after the read: delete the Like that was read, or create one.
toggleLike_write(L, nid, d, u, exists) ==
  IF exists # Null
  THEN [likes |-> Like_deleteOne(L, exists), nid |-> nid, pc |-> "done",
        res |-> {[liked |-> FALSE]}]
  ELSE IF Like_duplicate(L, d, u)
  THEN [likes |-> L, nid |-> nid, pc |-> "unhandled", res |-> {}]
  ELSE [likes |-> L \cup {[_id |-> nid, diary_id |-> d, user |-> u]},
        nid |-> nid + 1, pc |-> "done", res |-> {[liked |-> TRUE]}]

\* One whole toggleLike call with nothing interleaved.
toggleLike(L, nid, d, u) == toggleLike_write(L, nid, d, u, Like_findOne(L, d, u))

toggleLike_start(r, d, u) ==
  /\ likeReq[r].pc \in Ended
  /\ nextId.like + Cardinality(InFlight(likeReq)) <= MaxLikeId
  /\ likeReq' = [likeReq EXCEPT ![r] =
                   [pc |-> "findOne", diary_id |-> d, user |-> u,
                    exists |-> Null, res |-> {}]]
  /\ UNCHANGED <<variant, store, delReq, ansReq, regReq, detailReq, listReq, otherReqs>>

toggleLike_findOne(r) ==
  /\ likeReq[r].pc = "findOne"
  /\ likeReq' = [likeReq EXCEPT
                   ![r].exists = Like_findOne(likes, likeReq[r].diary_id,
                                              likeReq[r].user),
                   ![r].pc = "write"]
  /\ UNCHANGED <<variant, store, delReq, ansReq, regReq, detailReq, listReq, otherReqs>>

\* The store applies await Like.deleteOne / await Like.create; the handler
\* is resumed later. A rejected create ends the request with no response.
toggleLike_store(r) ==
  /\ likeReq[r].pc = "write"
  /\ LET w == toggleLike_write(likes, nextId.like, likeReq[r].diary_id,
                               likeReq[r].user, likeReq[r].exists)
     IN /\ likes' = w.likes
        /\ nextId' = [nextId EXCEPT !.like = w.nid]
        /\ likeReq' = [likeReq EXCEPT
             ![r].pc = IF w.pc = "done" THEN "respond" ELSE w.pc]
  /\ UNCHANGED <<variant, users, diaries, comments, answers, questions, notices,
                 delReq, ansReq, regReq, detailReq, listReq, otherReqs>>

\* The handler resumes: res.json({ liked: false }) after the delete,
\* res.json({ liked: true }) after the create.
toggleLike_respond(r) ==
  /\ likeReq[r].pc = "respond"
  /\ likeReq' = [likeReq EXCEPT
                   ![r].pc = "done",
                   ![r].res = {[liked |-> likeReq[r].exists = Null]}]
  /\ UNCHANGED <<variant, store, delReq, ansReq, regReq, detailReq, listReq,
                 otherReqs>>

\* ----------------------------------------------- DELETE /diary/:id (224-229)
\* One whole deleteDiary call with nothing interleaved.
deleteDiary(D, C, L, id) ==
  [diaries |-> Diary_findByIdAndDelete(D, id),
   comments |-> Comment_deleteMany(C, id),
   likes |-> Like_deleteMany(L, id)]

deleteDiary_start(r, id) ==
  /\ delReq[r].pc \in Ended
  /\ delReq' = [delReq EXCEPT ![r] = [pc |-> "diary", id |-> id, res |-> {}]]
  /\ UNCHANGED <<variant, store, likeReq, ansReq, regReq, detailReq, listReq, otherReqs>>

deleteDiary_diary(r) ==
  /\ delReq[r].pc = "diary"
  /\ diaries' = Diary_findByIdAndDelete(diaries, delReq[r].id)
  /\ delReq' = [delReq EXCEPT ![r].pc = "comments"]
  /\ UNCHANGED <<variant, users, comments, likes, answers, questions, notices, nextId,
                 likeReq, ansReq, regReq, detailReq, listReq, otherReqs>>

deleteDiary_comments(r) ==
  /\ delReq[r].pc = "comments"
  /\ comments' = Comment_deleteMany(comments, delReq[r].id)
  /\ delReq' = [delReq EXCEPT ![r].pc = "likes"]
  /\ UNCHANGED <<variant, users, diaries, likes, answers, questions, notices, nextId,
                 likeReq, ansReq, regReq, detailReq, listReq, otherReqs>>

deleteDiary_likes(r) ==
  /\ delReq[r].pc = "likes"
  /\ likes' = Like_deleteMany(likes, delReq[r].id)
  /\ delReq' = [delReq EXCEPT ![r].pc = "done",
                              ![r].res = {[success |-> TRUE]}]
  /\ UNCHANGED <<variant, users, diaries, comments, answers, questions, notices, nextId,
                 likeReq, ansReq, regReq, detailReq, listReq, otherReqs>>

\* The request stops before its next store call: the process dies, or the
\* call rejects and nothing catches it. No handler undoes the earlier steps.
deleteDiary_stop(r) ==
  /\ delReq[r].pc \in {"comments", "likes"}
  /\ delReq' = [delReq EXCEPT ![r].pc = "stopped"]
  /\ UNCHANGED <<variant, store, likeReq, ansReq, regReq, detailReq, listReq, otherReqs>>

\* ----------------------------------------------------- POST /answer (296-307)
\* The handler after the read: update the answer that was read, or create one.
submitAnswer_write(A, nid, q, u, c, exists) ==
  IF exists # Null
  THEN [answers |-> Answer_save(A, exists, c), nid |-> nid, pc |-> "done",
        res |-> {[success |-> TRUE]}]
  ELSE LET w == Answer_create(A, nid, q, u, c)
       IN IF w.ok
          THEN [answers |-> w.answers, nid |-> w.nid, pc |-> "done",
                res |-> {[success |-> TRUE]}]
          ELSE [answers |-> A, nid |-> nid, pc |-> "unhandled", res |-> {}]

\* One whole submitAnswer call with nothing interleaved.
submitAnswer(A, nid, q, u, c) ==
  submitAnswer_write(A, nid, q, u, c, Answer_findOne(A, q, u))

submitAnswer_start(r, q, u, c) ==
  /\ ansReq[r].pc \in Ended
  /\ nextId.answer + Cardinality(InFlight(ansReq)) <= MaxAnswerId
  /\ ansReq' = [ansReq EXCEPT ![r] =
                  [pc |-> "findOne", question_id |-> q, user |-> u,
                   content |-> c, exists |-> Null, res |-> {}]]
  /\ UNCHANGED <<variant, store, likeReq, delReq, regReq, detailReq, listReq, otherReqs>>

submitAnswer_findOne(r) ==
  /\ ansReq[r].pc = "findOne"
  /\ ansReq' = [ansReq EXCEPT
                  ![r].exists = Answer_findOne(answers, ansReq[r].question_id,
                                               ansReq[r].user),
                  ![r].pc = "write"]
  /\ UNCHANGED <<variant, store, likeReq, delReq, regReq, detailReq, listReq, otherReqs>>

\* The store applies await exists.save() / await Answer.create; the handler
\* is resumed later.
submitAnswer_store(r) ==
  /\ ansReq[r].pc = "write"
  /\ LET w == submitAnswer_write(answers, nextId.answer, ansReq[r].question_id,
                                 ansReq[r].user, ansReq[r].content,
                                 ansReq[r].exists)
     IN /\ answers' = w.answers
        /\ nextId' = [nextId EXCEPT !.answer = w.nid]
        /\ ansReq' = [ansReq EXCEPT
             ![r].pc = IF w.pc = "done" THEN "respond" ELSE w.pc]
  /\ UNCHANGED <<variant, users, diaries, comments, likes, questions, notices,
                 likeReq, delReq, regReq, detailReq, listReq, otherReqs>>

\* The handler resumes: res.json({ success: true })
submitAnswer_respond(r) ==
  /\ ansReq[r].pc = "respond"
  /\ ansReq' = [ansReq EXCEPT ![r].pc = "done",
                              ![r].res = {[success |-> TRUE]}]
  /\ UNCHANGED <<variant, store, likeReq, delReq, regReq, detailReq, listReq,
                 otherReqs>>

\* --------------------------------------------------- POST /register (126-145)
\* if (ip && ip.includes(',')) ip = ip.split(',')[0]
FirstAddr(header) == header[1]

NewUser(nid, username, password, header, t) ==
  [_id |-> nid, username |-> username, password |-> password,
   display_name |-> username, bio |-> WelcomeBio, profile_img |-> NoImage,
   created_at |-> t, ip_address |-> FirstAddr(header)]

Ok200 == {[status |-> 200, body |-> "success"]}
Err400 == {[status |-> 400, body |-> "duplicate"]}

register_start(r, username, password, header) ==
  /\ regReq[r].pc \in Ended
  /\ regReq' = [regReq EXCEPT ![r] =
                  [pc |-> IF variant = "part_000" THEN "hash" ELSE "create",
                   username |-> username, password |-> password,
                   header |-> header, secret |-> password, res |-> {}]]
  /\ UNCHANGED <<variant, store, likeReq, delReq, ansReq, detailReq, listReq, otherReqs>>

\* part_000 only: const hash = await bcrypt.hash(password, 10), inside the
\* try; bcrypt.hash rejects a password that is no string and hashes ""
register_hash(r) ==
  /\ regReq[r].pc = "hash"
  /\ regReq' = IF regReq[r].password \in {Absent, NullField}
               THEN [regReq EXCEPT ![r].pc = "done", ![r].res = Err400]
               ELSE [regReq EXCEPT ![r].pc = "create",
                                   ![r].secret = Hash(regReq[r].password)]
  /\ UNCHANGED <<variant, store, likeReq, delReq, ansReq, detailReq, listReq, otherReqs>>

register_create(r, t) ==
  /\ regReq[r].pc = "create"
  /\ LET w == User_create(users, NewUser(nextId.user, regReq[r].username,
                                         regReq[r].secret, regReq[r].header, t))
     IN /\ users' = w.users
        /\ nextId' = [nextId EXCEPT !.user = IF w.ok THEN @ + 1 ELSE @]
        /\ regReq' = [regReq EXCEPT ![r].pc = "done",
                                    ![r].res = IF w.ok THEN Ok200 ELSE Err400]
  /\ UNCHANGED <<variant, diaries, comments, likes, answers, questions, notices,
                 likeReq, delReq, ansReq, detailReq, listReq, otherReqs>>

\* ---------------------------------------- GET /admin/user/:username (361-380)
\* A JSON body: every field the two files can send, Absent (-1 for numbers)
\* where the body does not hold the field.
NoBody ==
  [_id |-> -1, __v |-> -1, id |-> -1, username |-> Absent,
   display_name |-> Absent, bio |-> Absent, profile_img |-> Absent,
   created_at |-> Absent, ip_address |-> Absent, password |-> Absent,
   diary_count |-> -1, answer_count |-> -1]

\* part_000, viewer is not 'admin': { display_name, bio, profile_img }
BasicDetail(t) ==
  [NoBody EXCEPT !.display_name = t.display_name, !.bio = t.bio,
                 !.profile_img = t.profile_img]

\* part_000: if (viewer === 'admin')
IsAdminViewer(viewer) == viewer = Admin

\* server.js: the ten listed fields, whoever asks.
\* part_000, viewer 'admin': ...targetUser.toObject(), id, password:
\* "Encrypted", diary_count, answer_count
FullDetail(t, dCount, aCount) ==
  IF variant = "part_000"
  THEN [_id |-> t._id, __v |-> 0, id |-> t._id, username |-> t.username,
        display_name |-> t.display_name, bio |-> t.bio,
        profile_img |-> t.profile_img, created_at |-> t.created_at,
        ip_address |-> t.ip_address, password |-> "Encrypted",
        diary_count |-> dCount, answer_count |-> aCount]
  ELSE [NoBody EXCEPT !.id = t._id, !.username = t.username,
                      !.display_name = t.display_name, !.bio = t.bio,
                      !.profile_img = t.profile_img,
                      !.created_at = t.created_at,
                      !.ip_address = t.ip_address, !.password = t.password,
                      !.diary_count = dCount, !.answer_count = aCount]

\* Diary.countDocuments({ user }) / Answer.countDocuments({ user })
CountByUser(S, name) == Cardinality({x \in S : x.user = name})

userDetail_start(r, username, viewer) ==
  /\ detailReq[r].pc \in Ended
  /\ detailReq' = [detailReq EXCEPT ![r] =
                     [pc |-> "findOne", username |-> username,
                      viewer |-> viewer, targetUser |-> Null, dCount |-> -1,
                      res |-> {}]]
  /\ UNCHANGED <<variant, store, likeReq, delReq, ansReq, regReq, listReq, otherReqs>>

userDetail_findOne(r) ==
  /\ detailReq[r].pc = "findOne"
  /\ LET t == User_findOne(users, detailReq[r].username)
     IN detailReq' =
          IF t = Null
          THEN [detailReq EXCEPT ![r].pc = "done", ![r].res = {NoBody}]
          ELSE IF variant = "part_000" /\ ~IsAdminViewer(detailReq[r].viewer)
          THEN [detailReq EXCEPT ![r].pc = "done", ![r].targetUser = t,
                                 ![r].res = {BasicDetail(The(t))}]
          ELSE [detailReq EXCEPT ![r].pc = "dCount", ![r].targetUser = t]
  /\ UNCHANGED <<variant, store, likeReq, delReq, ansReq, regReq, listReq, otherReqs>>

userDetail_dCount(r) ==
  /\ detailReq[r].pc = "dCount"
  /\ detailReq' = [detailReq EXCEPT
       ![r].dCount = CountByUser(diaries, The(detailReq[r].targetUser).username),
       ![r].pc = "aCount"]
  /\ UNCHANGED <<variant, store, likeReq, delReq, ansReq, regReq, listReq, otherReqs>>

userDetail_aCount(r) ==
  /\ detailReq[r].pc = "aCount"
  /\ LET t == The(detailReq[r].targetUser)
     IN detailReq' = [detailReq EXCEPT
          ![r].res = {FullDetail(t, detailReq[r].dCount,
                                 CountByUser(answers, t.username))},
          ![r].pc = "done"]
  /\ UNCHANGED <<variant, store, likeReq, delReq, ansReq, regReq, listReq, otherReqs>>

\* ------------------------------------------------ GET /diaries/:viewer (173-205)
Unknown == "unknown"                  \* the fixed label of a missing writer

NewItem(d) == [d |-> d, pc |-> "writer", display_name |-> Absent,
               profile_img |-> Absent, like_count |-> -1, is_liked |-> FALSE]

\* One await of the async callback that decorates one diary.
ItemStep(it, viewer) ==
  IF it.pc = "writer"
  THEN LET w == User_findOne(users, it.d.user)
       IN [it EXCEPT !.pc = "likeCount",
             !.display_name = IF w # Null THEN The(w).display_name ELSE Unknown,
             !.profile_img = IF w # Null THEN The(w).profile_img ELSE NoImage]
  ELSE IF it.pc = "likeCount"
  THEN [it EXCEPT !.pc = "isLiked", !.like_count = LikeCount(likes, it.d._id)]
  ELSE [it EXCEPT !.pc = "done", !.is_liked = Liked(likes, it.d._id, viewer)]

listDiaries_start(r, viewer, sort, mood) ==
  /\ listReq[r].pc \in Ended
  /\ listReq' = [listReq EXCEPT ![r] =
                   [pc |-> "find", viewer |-> viewer, sort |-> sort,
                    mood |-> mood, items |-> <<>>]]
  /\ UNCHANGED <<variant, store, likeReq, delReq, ansReq, regReq, detailReq, otherReqs>>

listDiaries_find(r) ==
  /\ listReq[r].pc = "find"
  /\ LET found == Diary_find(diaries, listQuery(listReq[r].viewer,
                                                listReq[r].mood),
                             listReq[r].sort)
     IN listReq' = [listReq EXCEPT
          ![r].items = [i \in 1..Len(found) |-> NewItem(found[i])],
          ![r].pc = IF Len(found) = 0 THEN "done" ELSE "decorate"]
  /\ UNCHANGED <<variant, store, likeReq, delReq, ansReq, regReq, detailReq, otherReqs>>

\* Promise.all: the callbacks advance in any order; res.json follows the last.
listDiaries_item(r, i) ==
  /\ listReq[r].pc = "decorate"
  /\ i \in 1..Len(listReq[r].items)
  /\ listReq[r].items[i].pc # "done"
  /\ LET its == [listReq[r].items EXCEPT
                   ![i] = ItemStep(listReq[r].items[i], listReq[r].viewer)]
     IN listReq' = [listReq EXCEPT
          ![r].items = its,
          ![r].pc = IF \A j \in 1..Len(its) : its[j].pc = "done"
                    THEN "done" ELSE "decorate"]
  /\ UNCHANGED <<variant, store, likeReq, delReq, ansReq, regReq, detailReq, otherReqs>>

\* ------------------------------------------------- PUT /diary/:id (218-222)
editDiary(id, content, mood, is_private) ==
  /\ diaries' = Diary_findByIdAndUpdate(diaries, id, content, mood, is_private)
  /\ UNCHANGED <<variant, users, comments, likes, answers, questions, notices, nextId,
                 reqs>>

\* One PUT /diary/:id request: the await of the update, then res.json.
editDiary_start(r, id, content, mood, is_private) ==
  /\ editReq[r].pc \in Ended
  /\ editReq' = [editReq EXCEPT ![r] =
                   [pc |-> "update", id |-> id, content |-> content,
                    mood |-> mood, is_private |-> is_private, res |-> {}]]
  /\ UNCHANGED <<variant, store, likeReq, delReq, ansReq, regReq, detailReq,
                 listReq, loginReq, reserveReq, historyReq, noticeReq,
                 profileReq, infoReq>>

editDiary_update(r) ==
  /\ editReq[r].pc = "update"
  /\ diaries' = Diary_findByIdAndUpdate(diaries, editReq[r].id,
                   editReq[r].content, editReq[r].mood, editReq[r].is_private)
  /\ editReq' = [editReq EXCEPT ![r].pc = "done",
                                ![r].res = {[success |-> TRUE]}]
  /\ UNCHANGED <<variant, users, comments, likes, answers, questions, notices,
                 nextId, likeReq, delReq, ansReq, regReq, detailReq, listReq,
                 loginReq, reserveReq, historyReq, noticeReq, profileReq,
                 infoReq>>

\* ------------------------------------------------------ POST /diary (207-216)
\* is_private: is_private || 0, cast by the schema's Number type; the
\* requests of the model upload no file: image is bufferToBase64(undefined)
ToNumber(s) == IF s = "1" THEN 1 ELSE 0
PrivateInputs == {Absent, "0", "1"}

NewDiary(nid, u, content, mood, is_private) ==
  [_id |-> nid, user |-> u, content |-> content, mood |-> mood,
   is_private |-> IF is_private = Absent THEN 0 ELSE ToNumber(is_private),
   image |-> NoImage, date |-> Today]

createDiary(u, content, mood, is_private) ==
  /\ nextId.diary <= MaxDiaryId
  /\ diaries' = diaries \cup
       {NewDiary(nextId.diary, u, content, mood, is_private)}
  /\ nextId' = [nextId EXCEPT !.diary = @ + 1]
  /\ UNCHANGED <<variant, users, comments, likes, answers, questions, notices, reqs>>

\* ---------------------------------------------------- POST /comment (256-260)
addComment(d, u, content) ==
  /\ nextId.comment <= MaxCommentId
  /\ comments' = comments \cup
       {[_id |-> nextId.comment, diary_id |-> d, user |-> u,
         content |-> content, date |-> Today]}
  /\ nextId' = [nextId EXCEPT !.comment = @ + 1]
  /\ UNCHANGED <<variant, users, diaries, likes, answers, questions, notices, reqs>>

\* ----------------------------------------------------- POST /login (147-155)
UnknownUser == {[error |-> "no such id", success |-> FALSE, username |-> Absent]}
WrongPassword ==
  {[error |-> "wrong password", success |-> FALSE, username |-> Absent]}
LoggedIn(name) == {[error |-> Absent, success |-> TRUE, username |-> name]}

login_start(r, username, password) ==
  /\ loginReq[r].pc \in Ended
  /\ loginReq' = [loginReq EXCEPT ![r] =
                    [pc |-> "findOne", username |-> username,
                     password |-> password, user |-> Null, res |-> {}]]
  /\ UNCHANGED <<variant, store, likeReq, delReq, ansReq, regReq, detailReq,
                 listReq, reserveReq, historyReq, noticeReq, profileReq, infoReq, editReq>>

\* server.js: if (req.body.password !== user.password), after the one await
login_findOne(r) ==
  /\ loginReq[r].pc = "findOne"
  /\ LET user == User_findOne(users, loginReq[r].username)
     IN loginReq' = [loginReq EXCEPT ![r] =
          IF user = Null
          THEN [@ EXCEPT !.pc = "done", !.res = UnknownUser]
          ELSE IF variant = "part_000"
          THEN [@ EXCEPT !.pc = "compare", !.user = user]
          ELSE [@ EXCEPT !.pc = "done", !.user = user,
                         !.res = IF loginReq[r].password # The(user).password
                                 THEN WrongPassword
                                 ELSE LoggedIn(The(user).username)]]
  /\ UNCHANGED <<variant, store, likeReq, delReq, ansReq, regReq, detailReq,
                 listReq, reserveReq, historyReq, noticeReq, profileReq, infoReq, editReq>>

\* part_000: const match = await bcrypt.compare(req.body.password,
\* user.password), which rejects when the password is undefined; the handler
\* has no try/catch
login_compare(r) ==
  /\ loginReq[r].pc = "compare"
  /\ loginReq' = [loginReq EXCEPT ![r] =
       IF loginReq[r].password = Absent
       THEN [@ EXCEPT !.pc = "unhandled"]
       ELSE [@ EXCEPT !.pc = "done",
               !.res = IF ~Compare(loginReq[r].password,
                                   The(loginReq[r].user).password)
                       THEN WrongPassword
                       ELSE LoggedIn(The(loginReq[r].user).username)]]
  /\ UNCHANGED <<variant, store, likeReq, delReq, ansReq, regReq, detailReq,
                 listReq, reserveReq, historyReq, noticeReq, profileReq, infoReq, editReq>>


\* ------------------------------- POST /admin/questions/reserve (382-393)
\* A date of the request body is the sequence of its characters.
NoDate == <<Absent>>                  \* req.body.date is undefined
\* !text and !date
NoText(text) == text \in {Absent, Empty}
NoValue(date) == date \in {NoDate, <<>>}

\* date.replace(/-/g, '. ')
RECURSIVE ReplaceDashes(_)
ReplaceDashes(date) ==
  IF date = <<>> THEN <<>>
  ELSE (IF Head(date) = "-" THEN <<".", " ">> ELSE <<Head(date)>>)
         \o ReplaceDashes(Tail(date))

\* Question.create({ text, date })
Question_create(Q, nid, text, date) ==
  Q \cup {[_id |-> nid, text |-> text, date |-> date]}

NotEnough == {[success |-> FALSE, msg |-> "not enough"]}
Reserved == {[success |-> TRUE, msg |-> Absent]}

\* server.js: if (!text || !date) return res.json({ success: false, ... })
\* part_000: no test; req.body.date.replace throws on an undefined date and
\* nothing catches it
reserveQuestion_start(r, text, date) ==
  /\ reserveReq[r].pc \in Ended
  /\ nextId.question <= MaxQuestionId
  /\ reserveReq' = [reserveReq EXCEPT ![r] =
       IF variant = "server.js" /\ (NoText(text) \/ NoValue(date))
       THEN [pc |-> "done", text |-> text, date |-> date, res |-> NotEnough]
       ELSE IF variant = "part_000" /\ date = NoDate
       THEN [pc |-> "unhandled", text |-> text, date |-> date, res |-> {}]
       ELSE [pc |-> "create", text |-> text, date |-> date, res |-> {}]]
  /\ UNCHANGED <<variant, store, likeReq, delReq, ansReq, regReq, detailReq,
                 listReq, loginReq, historyReq, noticeReq, profileReq, infoReq, editReq>>

reserveQuestion_create(r) ==
  /\ reserveReq[r].pc = "create"
  /\ questions' = Question_create(questions, nextId.question,
                                  reserveReq[r].text,
                                  ReplaceDashes(reserveReq[r].date))
  /\ nextId' = [nextId EXCEPT !.question = @ + 1]
  /\ reserveReq' = [reserveReq EXCEPT ![r].pc = "done", ![r].res = Reserved]
  /\ UNCHANGED <<variant, users, diaries, comments, likes, answers, notices,
                 likeReq, delReq, ansReq, regReq, detailReq, listReq,
                 loginReq, historyReq, noticeReq, profileReq, infoReq, editReq>>


\* -------------------------- GET /questions/history/:username (268-280)
\* UTF-16 code units of the characters that dates are written with
CharCode(c) ==
  CASE c = " " -> 32 [] c = "-" -> 45 [] c = "." -> 46
    [] c = "0" -> 48 [] c = "1" -> 49 [] c = "2" -> 50 [] c = "3" -> 51
    [] c = "4" -> 52 [] c = "5" -> 53 [] c = "6" -> 54 [] c = "7" -> 55
    [] c = "8" -> 56 [] c = "9" -> 57 [] OTHER -> 60

\* a < b as strings
RECURSIVE StringLess(_, _)
StringLess(a, b) ==
  IF b = <<>> THEN FALSE
  ELSE IF a = <<>> THEN TRUE
  ELSE IF Head(a) = Head(b) THEN StringLess(Tail(a), Tail(b))
  ELSE CharCode(Head(a)) < CharCode(Head(b))

\* Question.find().sort({ date: -1 }).lean(): the questions by descending
\* date; the order among equal dates is not fixed by the sort
Question_find(Q) ==
  {f \in [1..Cardinality(Q) -> Q] :
     /\ \A i, j \in 1..Cardinality(Q) : i # j => f[i] # f[j]
     /\ \A i, j \in 1..Cardinality(Q) :
          i < j => ~StringLess(f[i].date, f[j].date)}

NoAnswer == "null"                    \* my_answer: null

NewEntry(q) == [q_id |-> q._id, q_text |-> q.text, q_date |-> q.date,
                my_answer |-> Absent, pc |-> "findOne"]

answerHistory_start(r, username) ==
  /\ historyReq[r].pc \in Ended
  /\ historyReq' = [historyReq EXCEPT ![r] =
                      [pc |-> "find", username |-> username, items |-> <<>>]]
  /\ UNCHANGED <<variant, store, likeReq, delReq, ansReq, regReq, detailReq,
                 listReq, loginReq, reserveReq, noticeReq, profileReq, infoReq, editReq>>

answerHistory_find(r) ==
  /\ historyReq[r].pc = "find"
  /\ \E f \in Question_find(questions) :
       historyReq' = [historyReq EXCEPT
         ![r].items = [i \in 1..Len(f) |-> NewEntry(f[i])],
         ![r].pc = IF Len(f) = 0 THEN "done" ELSE "answers"]
  /\ UNCHANGED <<variant, store, likeReq, delReq, ansReq, regReq, detailReq,
                 listReq, loginReq, reserveReq, noticeReq, profileReq, infoReq, editReq>>

\* Promise.all: one callback's await Answer.findOne; res.json follows the last
answerHistory_item(r, i) ==
  /\ historyReq[r].pc = "answers"
  /\ i \in 1..Len(historyReq[r].items)
  /\ historyReq[r].items[i].pc = "findOne"
  /\ LET ans == Answer_findOne(answers, historyReq[r].items[i].q_id,
                               historyReq[r].username)
         its == [historyReq[r].items EXCEPT
                   ![i].pc = "done",
                   ![i].my_answer = IF ans # Null THEN The(ans).content
                                    ELSE NoAnswer]
     IN historyReq' = [historyReq EXCEPT
          ![r].items = its,
          ![r].pc = IF \A j \in 1..Len(its) : its[j].pc = "done"
                    THEN "done" ELSE "answers"]
  /\ UNCHANGED <<variant, store, likeReq, delReq, ansReq, regReq, detailReq,
                 listReq, loginReq, reserveReq, noticeReq, profileReq, infoReq, editReq>>


\* ------------------------------ DELETE /admin/question/:id (395-402)
\* await Question.findByIdAndDelete(req.params.id); res.json({ success: true })
deleteQuestion(id) ==
  /\ questions' = {q \in questions : q._id # id}
  /\ UNCHANGED <<variant, users, diaries, comments, likes, answers, notices,
                 nextId, reqs>>


\* ------------- GET /notices, POST /admin/notice, DELETE /admin/notice/:id
\* a findOne that takes the oldest notice
Notice_findOne_oldest(N) == First(N)
\* Notice.findOne().sort({ _id: -1 })
Notice_findOne(N) ==
  IF N = {} THEN Null ELSE {CHOOSE x \in N : \A y \in N : y._id <= x._id}

\* await Notice.create({ content: req.body.content, date: getKSTDate() })
postNotice(content) ==
  /\ nextId.notice <= MaxNoticeId
  /\ notices' = notices \cup
       {[_id |-> nextId.notice, content |-> content, date |-> Today]}
  /\ nextId' = [nextId EXCEPT !.notice = @ + 1]
  /\ UNCHANGED <<variant, users, diaries, comments, likes, answers, questions,
                 reqs>>

\* await Notice.findByIdAndDelete(req.params.id)
deleteNotice(id) ==
  /\ notices' = {n \in notices : n._id # id}
  /\ UNCHANGED <<variant, users, diaries, comments, likes, answers, questions,
                 nextId, reqs>>

listNotices_start(r) ==
  /\ noticeReq[r].pc \in Ended
  /\ noticeReq' = [noticeReq EXCEPT ![r] = [pc |-> "findOne", res |-> {}]]
  /\ UNCHANGED <<variant, store, likeReq, delReq, ansReq, regReq, detailReq,
                 listReq, loginReq, reserveReq, historyReq, profileReq, infoReq, editReq>>

\* res.json(notice || {}): the body is the notice, or holds nothing
listNotices_findOne(r) ==
  /\ noticeReq[r].pc = "findOne"
  /\ noticeReq' = [noticeReq EXCEPT ![r] =
                     [pc |-> "done", res |-> Notice_findOne(notices)]]
  /\ UNCHANGED <<variant, store, likeReq, delReq, ansReq, regReq, detailReq,
                 listReq, loginReq, reserveReq, historyReq, profileReq, infoReq, editReq>>


\* ---------------------------------------- POST /profile/update (162-170)
\* An uploaded file is its mimetype and the bytes of its buffer.
NoFile == [mimetype |-> Absent, buffer |-> <<>>]    \* req.file is undefined
Base64Alphabet ==
  <<"A", "B", "C", "D", "E", "F", "G", "H", "I", "J", "K", "L", "M",
    "N", "O", "P", "Q", "R", "S", "T", "U", "V", "W", "X", "Y", "Z",
    "a", "b", "c", "d", "e", "f", "g", "h", "i", "j", "k", "l", "m",
    "n", "o", "p", "q", "r", "s", "t", "u", "v", "w", "x", "y", "z",
    "0", "1", "2", "3", "4", "5", "6", "7", "8", "9", "+", "/">>

\* file.buffer.toString('base64')
RECURSIVE Base64(_)
Base64(bytes) ==
  IF Len(bytes) = 0 THEN ""
  ELSE IF Len(bytes) = 1
  THEN Base64Alphabet[(bytes[1] \div 4) + 1]
         \o Base64Alphabet[((bytes[1] % 4) * 16) + 1] \o "=="
  ELSE IF Len(bytes) = 2
  THEN Base64Alphabet[(bytes[1] \div 4) + 1]
         \o Base64Alphabet[((bytes[1] % 4) * 16 + bytes[2] \div 16) + 1]
         \o Base64Alphabet[((bytes[2] % 16) * 4) + 1] \o "="
  ELSE Base64Alphabet[(bytes[1] \div 4) + 1]
         \o Base64Alphabet[((bytes[1] % 4) * 16 + bytes[2] \div 16) + 1]
         \o Base64Alphabet[((bytes[2] % 16) * 4 + bytes[3] \div 64) + 1]
         \o Base64Alphabet[(bytes[3] % 64) + 1]
         \o Base64(SubSeq(bytes, 4, Len(bytes)))

\* bufferToBase64(file): null without a file, else the data URL
bufferToBase64(file) ==
  IF file = NoFile THEN NoImage
  ELSE "data:" \o file.mimetype \o ";base64," \o Base64(file.buffer)

\* const updateData = { display_name, bio };
\* if (req.file) updateData.profile_img = bufferToBase64(req.file);
UpdateData(display_name, bio, file) ==
  [display_name |-> display_name, bio |-> bio,
   profile_img |-> IF file # NoFile THEN bufferToBase64(file) ELSE Absent]

\* an update that inserts the user when no user matches
User_updateOne_upsert(U, username, updateData) ==
  IF \E x \in U : x.username = username
  THEN {IF x.username = username
        THEN [x EXCEPT !.display_name = updateData.display_name,
                       !.bio = updateData.bio]
        ELSE x : x \in U}
  ELSE U \cup {[_id |-> 0, username |-> username, password |-> Absent,
                display_name |-> updateData.display_name,
                bio |-> updateData.bio, profile_img |-> NoImage,
                created_at |-> Absent, ip_address |-> Absent]}
\* User.updateOne({ username }, updateData): sets the keys of updateData that
\* hold a value in the first user that matches; undefined keys are left out
\* of the update
User_updateOne(U, username, updateData) ==
  LET hit == User_findOne(U, username)
  IN {IF {x} = hit
      THEN [x EXCEPT
              !.display_name = IF updateData.display_name # Absent
                               THEN updateData.display_name ELSE @,
              !.bio = IF updateData.bio # Absent THEN updateData.bio ELSE @,
              !.profile_img = IF updateData.profile_img # Absent
                              THEN updateData.profile_img ELSE @]
      ELSE x : x \in U}

Updated == {[success |-> TRUE]}

updateProfile_start(r, username, display_name, bio, file) ==
  /\ profileReq[r].pc \in Ended
  /\ profileReq' = [profileReq EXCEPT ![r] =
                      [pc |-> "updateOne", username |-> username,
                       display_name |-> display_name, bio |-> bio,
                       file |-> file, res |-> {}]]
  /\ UNCHANGED <<variant, store, likeReq, delReq, ansReq, regReq, detailReq,
                 listReq, loginReq, reserveReq, historyReq, noticeReq, infoReq, editReq>>

updateProfile_updateOne(r) ==
  /\ profileReq[r].pc = "updateOne"
  /\ users' = User_updateOne(users, profileReq[r].username,
                             UpdateData(profileReq[r].display_name,
                                        profileReq[r].bio,
                                        profileReq[r].file))
  /\ profileReq' = [profileReq EXCEPT ![r].pc = "done", ![r].res = Updated]
  /\ UNCHANGED <<variant, diaries, comments, likes, answers, questions,
                 notices, nextId, likeReq, delReq, ansReq, regReq, detailReq,
                 listReq, loginReq, reserveReq, historyReq, noticeReq, infoReq, editReq>>


\* ------------------------------------- GET /user/info/:username (157-160)
\* .select("-password"): the document without its password
WithoutPassword(x) == [x EXCEPT !.password = Absent]

userInfo_start(r, username) ==
  /\ infoReq[r].pc \in Ended
  /\ infoReq' = [infoReq EXCEPT ![r] =
                   [pc |-> "findOne", username |-> username, res |-> {}]]
  /\ UNCHANGED <<variant, store, likeReq, delReq, ansReq, regReq, detailReq,
                 listReq, loginReq, reserveReq, historyReq, noticeReq,
                 profileReq, editReq>>

\* res.json(user || {}): the body is the user, or holds nothing
userInfo_findOne(r) ==
  /\ infoReq[r].pc = "findOne"
  /\ infoReq' = [infoReq EXCEPT ![r].pc = "done",
        ![r].res = {WithoutPassword(x) :
                      x \in User_findOne(users, infoReq[r].username)}]
  /\ UNCHANGED <<variant, store, likeReq, delReq, ansReq, regReq, detailReq,
                 listReq, loginReq, reserveReq, historyReq, noticeReq,
                 profileReq, editReq>>


\* ------------------------------------------------ GET /answers/:qid (282-294)
\* Answer.find({ question_id }).lean(): the matches in natural order
Answer_find(A, q) == SortAsc({a \in A : a.question_id = q})

\* One whole listAnswers call: every Answer of the question with its writer's
\* display_name and profile_img.
listAnswers(A, U, q) ==
  LET found == Answer_find(A, q)
  IN [i \in 1..Len(found) |->
        LET writer == User_findOne(U, found[i].user)
        IN [_id |-> found[i]._id, question_id |-> found[i].question_id,
            user |-> found[i].user, content |-> found[i].content,
            date |-> found[i].date,
            display_name |-> IF writer # Null THEN The(writer).display_name
                             ELSE Unknown,
            profile_img |-> IF writer # Null THEN The(writer).profile_img
                            ELSE NoImage]]


\* ------------------------------------------------------------------ Init
IdleLike == [pc |-> "idle", diary_id |-> 0, user |-> Absent, exists |-> Null,
             res |-> {}]
IdleDel == [pc |-> "idle", id |-> 0, res |-> {}]
IdleAns == [pc |-> "idle", question_id |-> 0, user |-> Absent,
            content |-> Absent, exists |-> Null, res |-> {}]
IdleReg == [pc |-> "idle", username |-> Absent, password |-> Absent,
            header |-> <<>>, secret |-> Absent, res |-> {}]
IdleDetail == [pc |-> "idle", username |-> Absent, viewer |-> Absent,
               targetUser |-> Null, dCount |-> -1, res |-> {}]
IdleList == [pc |-> "idle", viewer |-> Absent, sort |-> Absent,
             mood |-> Absent, items |-> <<>>]
IdleLogin == [pc |-> "idle", username |-> Absent, password |-> Absent,
              user |-> Null, res |-> {}]
IdleReserve == [pc |-> "idle", text |-> Absent, date |-> <<Absent>>,
                res |-> {}]
IdleHistory == [pc |-> "idle", username |-> Absent, items |-> <<>>]
IdleNotice == [pc |-> "idle", res |-> {}]
IdleProfile == [pc |-> "idle", username |-> Absent, display_name |-> Absent,
                bio |-> Absent, file |-> [mimetype |-> Absent, buffer |-> <<>>],
                res |-> {}]
IdleInfo == [pc |-> "idle", username |-> Absent, res |-> {}]
IdleEdit == [pc |-> "idle", id |-> 0, content |-> Absent, mood |-> Absent,
             is_private |-> Unset, res |-> {}]

InitStore ==
  /\ users = {}
  /\ diaries = {}
  /\ comments = {}
  /\ likes = {}
  /\ answers = {}
  /\ questions = {FirstQuestion}
  /\ notices = {}
  /\ nextId = [user |-> 1, diary |-> 1, comment |-> 1, like |-> 1,
               answer |-> 1, question |-> 2, notice |-> 1]

InitReqs ==
  /\ likeReq = [r \in Slots |-> IdleLike]
  /\ delReq = [r \in DelSlots |-> IdleDel]
  /\ ansReq = [r \in Slots |-> IdleAns]
  /\ regReq = [r \in RegSlots |-> IdleReg]
  /\ detailReq = [r \in DetailSlots |-> IdleDetail]
  /\ listReq = [r \in ListSlots |-> IdleList]
  /\ loginReq = [r \in LoginSlots |-> IdleLogin]
  /\ reserveReq = [r \in ReserveSlots |-> IdleReserve]
  /\ historyReq = [r \in HistorySlots |-> IdleHistory]
  /\ noticeReq = [r \in NoticeSlots |-> IdleNotice]
  /\ profileReq = [r \in ProfileSlots |-> IdleProfile]
  /\ infoReq = [r \in InfoSlots |-> IdleInfo]
  /\ editReq = [r \in EditSlots |-> IdleEdit]

\* ------------------------------------------------- concurrent toggleLike
\* The store after two POST /diary calls: diary 1 public, diary 2 private.
TwoDiaries ==
  {[_id |-> 1, user |-> "alice", content |-> "c1", mood |-> "happy",
    is_private |-> 0, image |-> NoImage, date |-> Today],
   [_id |-> 2, user |-> "bob", content |-> "c2", mood |-> "sad",
    is_private |-> 1, image |-> NoImage, date |-> Today]}

InitLike ==
  /\ variant = "server.js"
  /\ users = {}
  /\ diaries = TwoDiaries
  /\ comments = {}
  /\ likes = {}
  /\ answers = {}
  /\ questions = {FirstQuestion}
  /\ notices = {}
  /\ nextId = [user |-> 1, diary |-> 3, comment |-> 1, like |-> 1,
               answer |-> 1, question |-> 2, notice |-> 1]
  /\ InitReqs

NextLike ==
  \/ \E r \in Slots, d \in TargetIds, u \in Members :
        toggleLike_start(r, d, u)
  \/ \E r \in Slots : toggleLike_findOne(r)
  \/ \E r \in Slots : toggleLike_store(r)
  \/ \E r \in Slots : toggleLike_respond(r)

SpecLike == InitLike /\ [][NextLike]_vars

\* ------------------------------------------- toggleLike, one call at a time
NextLikeSerial ==
  \/ \E r \in Slots, d \in TargetIds, u \in Members :
        Quiet /\ toggleLike_start(r, d, u)
  \/ \E r \in Slots : toggleLike_findOne(r)
  \/ \E r \in Slots : toggleLike_store(r)
  \/ \E r \in Slots : toggleLike_respond(r)

SpecLikeSerial == InitLike /\ [][NextLikeSerial]_vars

\* ------------------------------------- deleteDiary against other requests
NextDelete ==
  \/ \E d \in TargetIds, u \in Members : toggleLike_start(1, d, u)
  \/ toggleLike_findOne(1)
  \/ toggleLike_store(1)
  \/ toggleLike_respond(1)
  \/ \E r \in DelSlots, id \in TargetIds : deleteDiary_start(r, id)
  \/ \E r \in DelSlots : deleteDiary_diary(r)
  \/ \E r \in DelSlots : deleteDiary_comments(r)
  \/ \E r \in DelSlots : deleteDiary_likes(r)
  \/ \E r \in DelSlots : deleteDiary_stop(r)
  \/ \E d \in TargetIds : addComment(d, "bob", "c1")

SpecDelete == InitLike /\ [][NextDelete]_vars

\* ------------------------------------------- deleteDiary, one call at a time
NextDeleteSerial ==
  \/ \E d \in TargetIds, u \in Members : Quiet /\ toggleLike_start(1, d, u)
  \/ toggleLike_findOne(1)
  \/ toggleLike_store(1)
  \/ toggleLike_respond(1)
  \/ \E r \in DelSlots, id \in TargetIds : Quiet /\ deleteDiary_start(r, id)
  \/ \E r \in DelSlots : deleteDiary_diary(r)
  \/ \E r \in DelSlots : deleteDiary_comments(r)
  \/ \E r \in DelSlots : deleteDiary_likes(r)
  \/ \E d \in TargetIds : Quiet /\ addComment(d, "bob", "c1")

SpecDeleteSerial == InitLike /\ [][NextDeleteSerial]_vars

\* ------------------------------------------------ concurrent submitAnswer
\* alice's answer of an earlier day to the first question
OldAnswer == [_id |-> 1, question_id |-> 1, user |-> "alice",
              content |-> "c1", date |-> Yesterday]
\* The Answer collection is empty, or holds the answer of an earlier day.
InitAnswer ==
  /\ variant = "server.js"
  /\ users = {}
  /\ diaries = {}
  /\ comments = {}
  /\ likes = {}
  /\ \E old \in {{}, {OldAnswer}} :
       /\ answers = old
       /\ nextId = [user |-> 1, diary |-> 1, comment |-> 1, like |-> 1,
                    answer |-> 1 + Cardinality(old), question |-> 2,
                    notice |-> 1]
  /\ questions = {FirstQuestion}
  /\ notices = {}
  /\ InitReqs

NextAnswer ==
  \/ \E r \in Slots, q \in AskedIds, u \in Members, c \in Contents :
        submitAnswer_start(r, q, u, c)
  \/ \E r \in Slots : submitAnswer_findOne(r)
  \/ \E r \in Slots : submitAnswer_store(r)
  \/ \E r \in Slots : submitAnswer_respond(r)

SpecAnswer == InitAnswer /\ [][NextAnswer]_vars

\* ----------------------------------------- submitAnswer, one call at a time
NextAnswerSerial ==
  \/ \E r \in Slots, q \in AskedIds, u \in Members, c \in Contents :
        Quiet /\ submitAnswer_start(r, q, u, c)
  \/ \E r \in Slots : submitAnswer_findOne(r)
  \/ \E r \in Slots : submitAnswer_store(r)
  \/ \E r \in Slots : submitAnswer_respond(r)

SpecAnswerSerial == InitAnswer /\ [][NextAnswerSerial]_vars

\* ---------------------------------------------------------- registration
InitUser == variant \in Variants /\ InitStore /\ InitReqs

NextUser ==
  \/ \E r \in RegSlots, b \in RegisterBodies, h \in IpHeaders :
        register_start(r, b.username, b.password, h)
  \/ \E r \in RegSlots : register_hash(r)
  \/ \E r \in RegSlots, t \in Times :
        \* the first User is created at t1, every later one at t2
        (t = "t1" <=> nextId.user = 1) /\ register_create(r, t)

SpecUser == InitUser /\ [][NextUser]_vars

\* ------------------------------------------------------------ user detail
\* The store after alice and admin registered with the file that runs.
TwoUsers ==
  {NewUser(1, "alice", IF variant = "part_000" THEN Hash("pw1") ELSE "pw1",
           <<"10.0.0.1">>, "t1"),
   NewUser(2, Admin, IF variant = "part_000" THEN Hash("pw2") ELSE "pw2",
           <<"10.0.0.2", "10.0.0.9">>, "t2")}

InitDetail ==
  /\ variant \in Variants
  /\ users = TwoUsers
  /\ diaries = {}
  /\ comments = {}
  /\ likes = {}
  /\ answers = {}
  /\ questions = {FirstQuestion}
  /\ notices = {}
  /\ nextId = [user |-> 3, diary |-> 1, comment |-> 1, like |-> 1,
               answer |-> 1, question |-> 2, notice |-> 1]
  /\ InitReqs

NextDetail ==
  \/ \E r \in DetailSlots, n \in UserNames, v \in UserNames \cup {Absent} :
        userDetail_start(r, n, v)
  \/ \E r \in DetailSlots : userDetail_findOne(r)
  \/ \E r \in DetailSlots : userDetail_dCount(r)
  \/ \E r \in DetailSlots : userDetail_aCount(r)
  \/ \E u \in Members : createDiary(u, "c1", "happy", "0")

SpecDetail == InitDetail /\ [][NextDetail]_vars

\* ------------------------------------------------------------------- feed
Viewers == UserNames
Sorts == {Absent, "oldest", "newest"}
MoodFilters == {Absent, Empty, "all"} \cup Moods
\* req.params.viewer and req.query of the GET /diaries/:viewer requests made
ListViewers == {Admin, "alice"}
ListQueries == {[sort |-> Absent, mood |-> Absent],
                [sort |-> Absent, mood |-> Empty],
                [sort |-> "oldest", mood |-> "happy"]}

\* The stores that two POST /diary calls leave.
FeedIds == {1, 2}
FeedDiaries ==
  {{NewDiary(1, a.user, "c1", a.mood, a.is_private),
    NewDiary(2, b.user, "c2", b.mood, b.is_private)} :
     a \in [user : Members, mood : Moods, is_private : PrivateInputs],
     b \in [user : Members, mood : Moods, is_private : PrivateInputs]}

InitFeed ==
  /\ variant = "server.js"
  /\ users = {NewUser(1, "alice", "pw1", <<"10.0.0.1">>, "t1")}
  /\ diaries \in FeedDiaries
  /\ comments = {}
  /\ likes = {}
  /\ answers = {}
  /\ questions = {FirstQuestion}
  /\ notices = {}
  /\ nextId = [user |-> 2, diary |-> 3, comment |-> 1, like |-> 1,
               answer |-> 1, question |-> 2, notice |-> 1]
  /\ InitReqs

NextFeed ==
  \/ \E id \in FeedIds, m \in Moods, p \in {0, 1} : editDiary(id, "c1", m, p)
  \/ \E r \in DelSlots, id \in FeedIds : deleteDiary_start(r, id)
  \/ \E r \in DelSlots : deleteDiary_diary(r)
  \/ \E r \in DelSlots : deleteDiary_comments(r)
  \/ \E r \in DelSlots : deleteDiary_likes(r)
  \/ \E r \in ListSlots, v \in ListViewers, q \in ListQueries :
        listDiaries_start(r, v, q.sort, q.mood)
  \/ \E r \in ListSlots : listDiaries_find(r)
  \/ \E r \in ListSlots, i \in FeedIds : listDiaries_item(r, i)

SpecFeed == InitFeed /\ [][NextFeed]_vars

\* ======================================================== checked properties
LikesOf(L, d, u) == {l \in L : l.diary_id = d /\ l.user = u}
SamePair(a, b) == a.diary_id = b.diary_id /\ a.user = b.user
ExceptDiary(S, id) == {x \in S : x.diary_id # id}

\* C3: serialized, toggleLike is an involution. From every store state and for
\* every (diary, user), two calls one after the other report liked =
\* not(previous) and then the opposite, and leave the liked pairs and every
\* diary's like count as they were; and every call that completes flips the
\* pair it names and nothing else.
C3_ToggleTwice ==
  \A d \in TargetIds, u \in Members :
    LET r1 == toggleLike(likes, nextId.like, d, u)
        r2 == toggleLike(r1.likes, r1.nid, d, u)
    IN /\ r1.res = {[liked |-> ~Liked(likes, d, u)]}
       /\ r2.res = {[liked |-> Liked(likes, d, u)]}
       /\ LikePairs(r2.likes) = LikePairs(likes)
       /\ Cardinality(r2.likes) = Cardinality(likes)
       /\ \A e \in TargetIds : LikeCount(r2.likes, e) = LikeCount(likes, e)
C3_CallFlips ==
  \A r \in Slots :
    LET d == likeReq[r].diary_id
        u == likeReq[r].user
    IN /\ likeReq[r].pc = "write" /\ likeReq'[r].pc # "write" =>
            /\ likeReq'[r].pc = "respond"
            /\ Liked(likes', d, u) = ~Liked(likes, d, u)
            /\ LikePairs(likes') \ {<<d, u>>} = LikePairs(likes) \ {<<d, u>>}
       /\ likeReq[r].pc = "respond" /\ likeReq'[r].pc # "respond" =>
            /\ likeReq'[r].res = {[liked |-> Liked(likes, d, u)]}
            /\ likes' = likes
C3_Involution == [](C3_ToggleTwice) /\ [][C3_CallFlips]_vars
\* Two calls for one pair have completed, the second undoing the first.
C3_Witness ==
  /\ likeReq[1].pc = "done" /\ likeReq[2].pc = "done"
  /\ likeReq[1].diary_id = likeReq[2].diary_id
  /\ likeReq[1].user = likeReq[2].user
  /\ likeReq[1].res = {[liked |-> TRUE]}
  /\ likeReq[2].res = {[liked |-> FALSE]}
  /\ ~Liked(likes, likeReq[1].diary_id, likeReq[1].user)
  /\ likes # {}

\* C4: at most one Like per (diary, user) in every reachable state, whatever
\* the interleaving of the reads and writes of concurrent toggleLike requests.
C4_OneLikePerPair ==
  \A a \in likes, b \in likes : SamePair(a, b) => a = b
\* A second create for a liked pair was attempted and refused.
C4_Witness ==
  \E r \in Slots :
    /\ likeReq[r].pc = "unhandled"
    /\ Cardinality(LikesOf(likes, likeReq[r].diary_id, likeReq[r].user)) = 1

\* C5: a toggleLike that read "not liked" and reaches its create when the pair
\* has been liked meanwhile is refused by the store: the store keeps exactly
\* one Like for the pair, the request ends unhandled and sends no response.
C5_StaleCreate ==
  \A r \in Slots :
    /\ likeReq[r].pc = "write" /\ likeReq[r].exists = Null
    /\ Liked(likes, likeReq[r].diary_id, likeReq[r].user)
    /\ likeReq'[r].pc # "write"
    => /\ likeReq'[r].pc = "unhandled"
       /\ likeReq'[r].res = {}
       /\ likes' = likes
       /\ Cardinality(LikesOf(likes', likeReq[r].diary_id, likeReq[r].user)) = 1
C5_Unanswered ==
  \A r \in Slots : likeReq[r].pc = "unhandled" =>
    likeReq[r].res = {} /\ likeReq[r].exists = Null
C5_CheckThenAct == [](C5_Unanswered) /\ [][C5_StaleCreate]_vars
\* Two requests for one pair both read "not liked"; the first created and
\* answered liked, the second was refused and never answered; the pair is
\* liked, where two calls in a row would have left it not liked.
C5_Witness ==
  /\ likeReq[1].pc = "done" /\ likeReq[1].res = {[liked |-> TRUE]}
  /\ likeReq[2].pc = "unhandled" /\ likeReq[2].res = {}
  /\ likeReq[1].exists = Null /\ likeReq[2].exists = Null
  /\ likeReq[1].diary_id = likeReq[2].diary_id
  /\ likeReq[1].user = likeReq[2].user
  /\ likes = {[_id |-> 1, diary_id |-> likeReq[1].diary_id,
               user |-> likeReq[1].user]}
  /\ toggleLike(toggleLike({}, 1, likeReq[1].diary_id, likeReq[1].user).likes,
                2, likeReq[1].diary_id, likeReq[1].user).likes = {}

\* C8: deleteDiary(id) run to completion with nothing interleaved leaves no
\* Diary with that id and no Comment or Like with diary_id = id, however many
\* referenced it, and leaves every other diary's documents as they were.
C8_WholeCall ==
  \A id \in TargetIds :
    LET s == deleteDiary(diaries, comments, likes, id)
    IN /\ \A x \in s.diaries : x._id # id
       /\ \A c \in s.comments : c.diary_id # id
       /\ \A l \in s.likes : l.diary_id # id
       /\ s.diaries = {x \in diaries : x._id # id}
       /\ s.comments = ExceptDiary(comments, id)
       /\ s.likes = ExceptDiary(likes, id)
C8_Completes ==
  \A r \in DelSlots :
    LET id == delReq[r].id
    IN /\ delReq[r].pc \in {"diary", "comments", "likes"}
          /\ delReq'[r].pc # delReq[r].pc
          => /\ {x \in diaries' : x._id # id} = {x \in diaries : x._id # id}
             /\ ExceptDiary(comments', id) = ExceptDiary(comments, id)
             /\ ExceptDiary(likes', id) = ExceptDiary(likes, id)
       /\ delReq[r].pc = "likes" /\ delReq'[r].pc = "done"
          => /\ \A x \in diaries' : x._id # id
             /\ \A c \in comments' : c.diary_id # id
             /\ \A l \in likes' : l.diary_id # id
             /\ delReq'[r].res = {[success |-> TRUE]}
C8_Cascade == [](C8_WholeCall) /\ [][C8_Completes]_vars
\* A created diary was deleted with its comments and likes gone, while a
\* comment and a like of the other diary are still stored.
C8_Witness ==
  /\ delReq[1].pc = "done" /\ delReq[1].id < nextId.diary
  /\ nextId.comment > 2 /\ nextId.like > 2
  /\ \A x \in diaries : x._id # delReq[1].id
  /\ \A c \in comments : c.diary_id # delReq[1].id
  /\ \A l \in likes : l.diary_id # delReq[1].id
  /\ \E x \in diaries : /\ \E c \in comments : c.diary_id = x._id
                        /\ \E l \in likes : l.diary_id = x._id

\* C9: deleteDiary is three store steps in the order diary, comments, likes,
\* each touching its own collection only. A request that stops after the
\* first or second step changes nothing more: the diary is gone, what still
\* references it stays, and a deleted diary never comes back.
C9_StepOrder ==
  \A r \in DelSlots :
    delReq'[r].pc # delReq[r].pc =>
      \/ delReq[r].pc \in Ended /\ delReq'[r].pc = "diary"
         /\ UNCHANGED store
      \/ delReq[r].pc = "diary" /\ delReq'[r].pc = "comments"
         /\ UNCHANGED <<comments, likes>>
         /\ \A x \in diaries' : x._id # delReq[r].id
      \/ delReq[r].pc = "comments" /\ delReq'[r].pc \in {"likes", "stopped"}
         /\ UNCHANGED <<diaries, likes>>
         /\ delReq'[r].pc = "stopped" => UNCHANGED comments
      \/ delReq[r].pc = "likes" /\ delReq'[r].pc \in {"done", "stopped"}
         /\ UNCHANGED <<diaries, comments>>
         /\ delReq'[r].pc = "stopped" => UNCHANGED likes
C9_NoRollback ==
  \A id \in DiaryIds :
    (id < nextId.diary /\ \A x \in diaries : x._id # id)
      => \A x \in diaries' : x._id # id
C9_Stopped ==
  \A r \in DelSlots : delReq[r].pc = "stopped" =>
    /\ delReq[r].res = {}
    /\ \A x \in diaries : x._id # delReq[r].id
C9_NotTransactional ==
  [](C9_Stopped) /\ [][C9_StepOrder /\ C9_NoRollback]_vars
\* The request stopped after deleting a diary that had been created; a comment
\* and a like naming the deleted diary are still stored.
C9_Witness ==
  /\ delReq[1].pc = "stopped" /\ delReq[1].id < nextId.diary
  /\ \A x \in diaries : x._id # delReq[1].id
  /\ \E c \in comments : c.diary_id = delReq[1].id
  /\ \E l \in likes : l.diary_id = delReq[1].id

AnswersOf(A, q, u) == {a \in A : a.question_id = q /\ a.user = u}
AnswersNotOf(A, q, u) == {a \in A : ~(a.question_id = q /\ a.user = u)}

\* C6: with submitAnswer calls run one at a time, no (question, user) has two
\* Answer records; a call leaves exactly one record for its pair, holding the
\* content it submitted, and leaves other pairs' records alone; a pair that
\* has an answer keeps one; the same call made again changes nothing.
C6_OnePerPair ==
  \A a \in answers, b \in answers :
    a.question_id = b.question_id /\ a.user = b.user => a = b
C6_Repeat ==
  \A q \in AskedIds, u \in Members, c \in Contents :
    LET r1 == submitAnswer(answers, nextId.answer, q, u, c)
        r2 == submitAnswer(r1.answers, r1.nid, q, u, c)
    IN /\ Cardinality(AnswersOf(r1.answers, q, u)) = 1
       /\ \A a \in AnswersOf(r1.answers, q, u) : a.content = c
       /\ AnswersNotOf(r1.answers, q, u) = AnswersNotOf(answers, q, u)
       /\ Cardinality(r2.answers) = Cardinality(r1.answers)
       /\ {<<a._id, a.content>> : a \in r2.answers}
            = {<<a._id, a.content>> : a \in r1.answers}
       /\ r1.res = {[success |-> TRUE]} /\ r2.res = {[success |-> TRUE]}
C6_CallStores ==
  /\ \A r \in Slots :
       LET q == ansReq[r].question_id
           u == ansReq[r].user
       IN /\ ansReq[r].pc = "write" /\ ansReq'[r].pc # "write" =>
               /\ ansReq'[r].pc = "respond"
               /\ Cardinality(AnswersOf(answers', q, u)) = 1
               /\ \A a \in AnswersOf(answers', q, u) :
                    a.content = ansReq[r].content
               /\ AnswersNotOf(answers', q, u) = AnswersNotOf(answers, q, u)
          /\ ansReq[r].pc = "respond" /\ ansReq'[r].pc # "respond" =>
               /\ ansReq'[r].res = {[success |-> TRUE]}
               /\ answers' = answers
  /\ \A a \in answers : AnswersOf(answers', a.question_id, a.user) # {}
C6_Upsert == [](C6_OnePerPair /\ C6_Repeat) /\ [][C6_CallStores]_vars
\* A first call created the record with one content and a later call for the
\* same pair replaced it with another: still one record, the later content.
C6_Witness ==
  /\ ansReq[1].pc = "done" /\ ansReq[2].pc = "done"
  /\ ansReq[1].question_id = ansReq[2].question_id
  /\ ansReq[1].user = ansReq[2].user
  /\ ansReq[1].content = "c1" /\ ansReq[2].content = "c2"
  /\ ansReq[1].exists = Null /\ ansReq[2].exists # Null
  /\ answers = {[_id |-> 1, question_id |-> ansReq[1].question_id,
                 user |-> ansReq[1].user, content |-> "c2", date |-> Today]}

\* C7: nothing in the store refuses a second Answer for a (question, user): a
\* submitAnswer that found nothing always creates a record and reports
\* success, also when the pair has got an answer since it looked.
C7_CreateNeverRefused ==
  \A r \in Slots :
    ansReq[r].pc = "write" /\ ansReq[r].exists = Null /\ ansReq'[r].pc # "write"
    => /\ answers' = answers \cup
            {[_id |-> nextId.answer, question_id |-> ansReq[r].question_id,
              user |-> ansReq[r].user, content |-> ansReq[r].content,
              date |-> Today]}
       /\ Cardinality(answers') = Cardinality(answers) + 1
       /\ ansReq'[r].pc = "respond"
C7_SuccessReported ==
  \A r \in Slots :
    ansReq[r].pc = "respond" /\ ansReq'[r].pc # "respond" =>
      ansReq'[r].pc = "done" /\ ansReq'[r].res = {[success |-> TRUE]}
C7_FindThenCreate == [][C7_CreateNeverRefused /\ C7_SuccessReported]_vars
\* Two requests for one pair both found nothing, both created and both
\* reported success: two Answer records hold the same (question, user).
C7_Witness ==
  /\ ansReq[1].pc = "done" /\ ansReq[2].pc = "done"
  /\ ansReq[1].exists = Null /\ ansReq[2].exists = Null
  /\ ansReq[1].res = {[success |-> TRUE]} /\ ansReq[2].res = {[success |-> TRUE]}
  /\ ansReq[1].question_id = ansReq[2].question_id
  /\ ansReq[1].user = ansReq[2].user
  /\ answers = {} \cup AnswersOf(answers, ansReq[1].question_id, ansReq[1].user)
  /\ Cardinality(answers) = 2
  /\ \A a \in answers : a.date = Today

\* A register request takes its last step (the response is sent).
RegisterEnds(r) == regReq[r].pc \in {"hash", "create"} /\ regReq'[r].pc = "done"
Registered(U, name) == \E x \in U : x.username = name
Stored(r) == IF variant = "part_000" THEN Hash(regReq[r].password)
             ELSE regReq[r].password
C10_Unique ==
  /\ \A a \in users, b \in users : a.username = b.username => a = b
  /\ \A r \in RegSlots, q \in RegSlots :
       /\ regReq[r].pc = "done" /\ regReq[q].pc = "done"
       /\ regReq[r].res = Ok200 /\ regReq[q].res = Ok200
       /\ regReq[r].username = regReq[q].username
       => r = q
C10_Refused(r) ==
  /\ regReq'[r].res = Err400
  /\ users' = users
C10_Created(r) ==
  /\ regReq'[r].res = Ok200
  /\ \E x \in users' :
       /\ users' = users \cup {x} /\ x \notin users
       /\ x.username = regReq[r].username
       /\ x.display_name = regReq[r].username
       /\ x.profile_img = NoImage
       /\ x.password = Stored(r)
\* C10 as claimed: register fails exactly when the username is already stored,
\* and succeeds for every username not yet present.
C10_AsClaimed ==
  [](C10_Unique) /\
  [][\A r \in RegSlots : RegisterEnds(r) =>
       IF Registered(users, regReq[r].username)
       THEN C10_Refused(r) ELSE C10_Created(r)]_vars
\* the username is undefined, null or empty, or the secret undefined or null
Missing(r) ==
  \/ regReq[r].username \in {Absent, NullField, Empty}
  \/ regReq[r].password \in {Absent, NullField}
\* an empty secret is refused where the secret is stored as sent (server.js)
\* and accepted where its hash is stored (part_000)
EmptySecretRefused(r) == regReq[r].password = Empty /\ variant = "server.js"
\* C10 (amended): at most one User per username, and of the requests that
\* succeeded for one username only one; register for a stored username, or
\* with the username undefined, null or empty, or with the secret undefined
\* or null, sends the duplicate-identity error and leaves every User as it
\* was; so does register with an empty secret in src/server.js; every other
\* register (a non-empty username not yet stored with a non-empty secret,
\* and in src/unnamed/part_000 also with an empty secret) succeeds and adds
\* exactly one User, display name = username, avatar null.
C10_Register ==
  [](C10_Unique) /\
  [][\A r \in RegSlots : RegisterEnds(r) =>
       IF \/ Registered(users, regReq[r].username)
          \/ Missing(r) \/ EmptySecretRefused(r)
       THEN C10_Refused(r) ELSE C10_Created(r)]_vars
\* an empty secret for a new username was refused and nothing was stored
C10_EmptySecretRefused ==
  \E r \in RegSlots :
    /\ regReq[r].pc = "done" /\ regReq[r].password = Empty
    /\ regReq[r].res = Err400 /\ variant = "server.js"
    /\ ~Registered(users, regReq[r].username)
\* an empty secret for a new username was accepted: the hash of "" is stored
C10_EmptySecretStored ==
  \E r \in RegSlots :
    /\ regReq[r].pc = "done" /\ regReq[r].password = Empty
    /\ regReq[r].res = Ok200 /\ variant = "part_000"
    /\ \E x \in users : /\ x.username = regReq[r].username
                          /\ x.password = Hash(Empty)
\* a null secret and an empty username were refused with nothing stored
C10_MissingRefused ==
  /\ regReq[1].pc = "done" /\ regReq[1].password = NullField
  /\ regReq[2].pc = "done" /\ regReq[2].username = Empty
  /\ regReq[1].res = Err400 /\ regReq[2].res = Err400
  /\ users = {}
\* Two requests for one new username overlapped: one succeeded, the other got
\* the error, and the stored User holds the credential of the one that won.
C10_Witness ==
  /\ regReq[1].pc = "done" /\ regReq[2].pc = "done"
  /\ regReq[1].username = regReq[2].username
  /\ regReq[1].password = "pw1" /\ regReq[2].password = "pw2"
  /\ regReq[1].res = Err400 /\ regReq[2].res = Ok200
  /\ \E x \in users : /\ x.username = regReq[2].username
                        /\ x.password \in {"pw2", Hash("pw2")}
                        /\ x.ip_address \in {"10.0.0.1", "10.0.0.2"}
  /\ Cardinality(users) = 1

\* ------------------------------------------------------------------ login
\* req.body of POST /login: a field may be missing
LoginBodies == [username : {"alice", "bob", Absent},
                password : Secrets \cup {Absent}]

\* alice and admin are registered; bob registers while logins run
InitLogin ==
  /\ variant \in Variants
  /\ users = TwoUsers
  /\ diaries = {}
  /\ comments = {}
  /\ likes = {}
  /\ answers = {}
  /\ questions = {FirstQuestion}
  /\ notices = {}
  /\ nextId = [user |-> 3, diary |-> 1, comment |-> 1, like |-> 1,
               answer |-> 1, question |-> 2, notice |-> 1]
  /\ InitReqs

NextLogin ==
  \/ \E r \in LoginSlots, b \in LoginBodies :
        login_start(r, b.username, b.password)
  \/ \E r \in LoginSlots : login_findOne(r)
  \/ \E r \in LoginSlots : login_compare(r)
  \/ \E p \in Secrets : register_start(1, "bob", p, <<"10.0.0.1">>)
  \/ register_hash(1)
  \/ register_create(1, "t1")

SpecLogin == InitLogin /\ [][NextLogin]_vars


\* ---------------------------------------------------- question reservation
\* req.body of POST /admin/questions/reserve: a field may be missing or empty
Texts == {Absent, Empty, "q1", "q2"}
ReserveDates == {NoDate, <<"2", "0", "-", "0", "1", "-", "0", "2">>,
                 <<"2", "0", "-", "0", "1", "-", "0", "3">>}

InitReserve == variant \in Variants /\ InitStore /\ InitReqs

NextReserve ==
  \/ \E r \in ReserveSlots, t \in Texts, d \in ReserveDates :
        reserveQuestion_start(r, t, d)
  \/ \E r \in ReserveSlots : reserveQuestion_create(r)

SpecReserve == InitReserve /\ [][NextReserve]_vars


\* ------------------------------------------------------------ feed order
OrderIds == {1, 2, 3}
\* The store that three POST /diary calls leave.
ThreeDiaries ==
  {NewDiary(1, "alice", "c2", "sad", "0"),
   NewDiary(2, "bob", "c2", "sad", Absent),
   NewDiary(3, "alice", "c2", "happy", "1")}

InitOrder ==
  /\ variant = "server.js"
  /\ users = {NewUser(1, "alice", "pw1", <<"10.0.0.1">>, "t1")}
  /\ diaries = ThreeDiaries
  /\ comments = {}
  /\ likes = {}
  /\ answers = {}
  /\ questions = {FirstQuestion}
  /\ notices = {}
  /\ nextId = [user |-> 2, diary |-> 4, comment |-> 1, like |-> 1,
               answer |-> 1, question |-> 2, notice |-> 1]
  /\ InitReqs

NextOrder ==
  \/ \E id \in OrderIds, p \in {0, 1} : editDiary(id, "c1", "happy", p)
  \/ \E r \in ListSlots, sort \in Sorts :
        listDiaries_start(r, "alice", sort, Absent)
  \/ \E r \in ListSlots : listDiaries_find(r)
  \/ \E r \in ListSlots, i \in OrderIds : listDiaries_item(r, i)

SpecOrder == InitOrder /\ [][NextOrder]_vars


\* ------------------------------------- feed decoration, one call at a time
NextDecorate ==
  \/ \E d \in TargetIds, u \in Members : Quiet /\ toggleLike_start(1, d, u)
  \/ toggleLike_findOne(1)
  \/ toggleLike_store(1)
  \/ toggleLike_respond(1)
  \/ \E r \in ListSlots, v \in Members :
        Quiet /\ listDiaries_start(r, v, Absent, Absent)
  \/ \E r \in ListSlots : listDiaries_find(r)
  \/ \E r \in ListSlots, i \in TargetIds : listDiaries_item(r, i)

SpecDecorate == InitLike /\ [][NextDecorate]_vars


\* ---------------------------------------------------------- answer history
HistoryAsked == {1, 2}
\* The Question collection after one reservation for a later day.
TwoQuestions ==
  Question_create({FirstQuestion}, 2, "q1",
                  ReplaceDashes(<<"2", "0", "-", "0", "1", "-", "0", "2">>))

InitHistory ==
  /\ variant = "server.js"
  /\ users = {}
  /\ diaries = {}
  /\ comments = {}
  /\ likes = {}
  /\ answers = {}
  /\ questions = TwoQuestions
  /\ notices = {}
  /\ nextId = [user |-> 1, diary |-> 1, comment |-> 1, like |-> 1,
               answer |-> 1, question |-> 3, notice |-> 1]
  /\ InitReqs

NextHistory ==
  \/ \E q \in HistoryAsked, u \in Members, c \in Contents :
        submitAnswer_start(1, q, u, c)
  \/ submitAnswer_findOne(1)
  \/ submitAnswer_store(1)
  \/ submitAnswer_respond(1)
  \/ \E id \in HistoryAsked : deleteQuestion(id)
  \/ \E r \in HistorySlots, u \in Members : answerHistory_start(r, u)
  \/ \E r \in HistorySlots : answerHistory_find(r)
  \/ \E r \in HistorySlots, i \in HistoryAsked : answerHistory_item(r, i)

SpecHistory == InitHistory /\ [][NextHistory]_vars


\* ---------------------------------------------------------------- notices
NoticeIds == {1, 2, 3}                \* the notices that requests name

InitNotice == variant = "server.js" /\ InitStore /\ InitReqs

NextNotice ==
  \/ \E c \in Contents : postNotice(c)
  \/ \E id \in NoticeIds : deleteNotice(id)
  \/ \E r \in NoticeSlots : listNotices_start(r)
  \/ \E r \in NoticeSlots : listNotices_findOne(r)

SpecNotice == InitNotice /\ [][NextNotice]_vars


\* ---------------------------------------------------------------- profile
\* req.body and req.file of POST /profile/update
ProfileNames == {"alice", "bob", Absent}
DisplayNames == {"n1", Absent}
Bios == {"b1", "b2"}
Files == {NoFile, [mimetype |-> "image/png", buffer |-> <<104, 105>>]}

\* alice and admin are registered; bob registers while profiles are updated
NextProfile ==
  \/ \E r \in ProfileSlots, u \in ProfileNames, n \in DisplayNames,
        b \in Bios, f \in Files : updateProfile_start(r, u, n, b, f)
  \/ \E r \in ProfileSlots : updateProfile_updateOne(r)
  \/ \E p \in Secrets : register_start(1, "bob", p, <<"10.0.0.1">>)
  \/ register_hash(1)
  \/ register_create(1, "t1")

SpecProfile == InitLogin /\ [][NextProfile]_vars


\* --------------------------------------------------------------- accounts
\* alice and admin are registered; register, login, user info and profile
\* update requests for alice and bob run against each other
NextAccounts ==
  \/ \E u \in Members, p \in Secrets : register_start(1, u, p, <<"10.0.0.1">>)
  \/ register_hash(1)
  \/ register_create(1, "t1")
  \/ \E r \in LoginSlots, u \in Members : login_start(r, u, "pw1")
  \/ \E r \in LoginSlots : login_findOne(r)
  \/ \E r \in LoginSlots : login_compare(r)
  \/ \E r \in InfoSlots, u \in Members : userInfo_start(r, u)
  \/ \E r \in InfoSlots : userInfo_findOne(r)
  \/ \E r \in ProfileSlots, u \in Members, f \in Files :
        updateProfile_start(r, u, "n1", "b1", f)
  \/ \E r \in ProfileSlots : updateProfile_updateOne(r)

SpecAccounts == InitLogin /\ [][NextAccounts]_vars


\* ----------------------- feed decoration against toggleLike and deleteDiary
NextDecorateRace ==
  \/ \E d \in TargetIds, u \in Members : toggleLike_start(1, d, u)
  \/ toggleLike_findOne(1)
  \/ toggleLike_store(1)
  \/ toggleLike_respond(1)
  \/ \E r \in DelSlots, id \in TargetIds : deleteDiary_start(r, id)
  \/ \E r \in DelSlots : deleteDiary_diary(r)
  \/ \E r \in DelSlots : deleteDiary_comments(r)
  \/ \E r \in DelSlots : deleteDiary_likes(r)
  \/ \E r \in ListSlots, v \in Members :
        listDiaries_start(r, v, Absent, Absent)
  \/ \E r \in ListSlots : listDiaries_find(r)
  \/ \E r \in ListSlots, i \in TargetIds : listDiaries_item(r, i)

SpecDecorateRace == InitLike /\ [][NextDecorateRace]_vars


\* ------------------------------------------------------------ diary edits
EditIds == {1, 2, 3}                  \* the ids that PUT /diary/:id names
Picture == [mimetype |-> "image/png", buffer |-> <<104, 105>>]
\* Two diaries written earlier, the first with an uploaded image; each has a
\* like and a comment. No diary 3 was written.
EditDiaries ==
  {[_id |-> 1, user |-> "alice", content |-> "c1", mood |-> "happy",
    is_private |-> 0, image |-> bufferToBase64(Picture), date |-> Yesterday],
   [_id |-> 2, user |-> "bob", content |-> "c2", mood |-> "sad",
    is_private |-> 1, image |-> NoImage, date |-> Today]}

InitEdit ==
  /\ variant \in Variants
  /\ users = {}
  /\ diaries = EditDiaries
  /\ comments = {[_id |-> 1, diary_id |-> 1, user |-> "bob",
                  content |-> "c1", date |-> Yesterday]}
  /\ likes = {[_id |-> 1, diary_id |-> 1, user |-> "bob"]}
  /\ answers = {}
  /\ questions = {FirstQuestion}
  /\ notices = {}
  /\ nextId = [user |-> 1, diary |-> 3, comment |-> 2, like |-> 2,
               answer |-> 1, question |-> 2, notice |-> 1]
  /\ InitReqs

NextEdit ==
  \/ \E r \in EditSlots, id \in EditIds, c \in {Absent, "c2"},
        m \in {Absent, "sad"}, p \in {Unset, 0, 1} :
        editDiary_start(r, id, c, m, p)
  \/ \E r \in EditSlots : editDiary_update(r)
  \/ \E r \in DelSlots, id \in TargetIds : deleteDiary_start(r, id)
  \/ \E r \in DelSlots : deleteDiary_diary(r)
  \/ \E r \in DelSlots : deleteDiary_comments(r)
  \/ \E r \in DelSlots : deleteDiary_likes(r)

SpecEdit == InitEdit /\ [][NextEdit]_vars


\* ------------------------------------------------------------------ C1
Found(V, m, sort) ==
  LET f == Diary_find(diaries, listQuery(V, m), sort)
  IN {f[i] : i \in 1..Len(f)}
Visible(D, V) == D.is_private = 0 \/ D.user = V \/ V = Admin
Listed(r) == {listReq[r].items[i].d : i \in 1..Len(listReq[r].items)}

\* C1: in every reachable store state, for every diary D, viewer V and mood
\* filter m, D is in the result of listDiaries(V, m) if and only if D is
\* public, written by V or V is "admin", and m is absent, "all" or D's mood;
\* whatever the sort option and whatever edits and deletes preceded.
C1_AsClaimed ==
  \A V \in Viewers, m \in MoodFilters, sort \in Sorts, D \in diaries :
    D \in Found(V, m, sort) <=>
      Visible(D, V) /\ (m = Absent \/ m = "all" \/ D.mood = m)

\* C1 (amended): the same with a mood sent without a value read as an absent
\* one: D is in the result iff D is public, written by V or V is "admin", and
\* m is absent, empty, "all" or D's mood.
C1_Query ==
  \A V \in Viewers, m \in MoodFilters, sort \in Sorts :
    Found(V, m, sort) =
      {D \in diaries : Visible(D, V) /\
                       (m \in {Absent, Empty, "all"} \/ D.mood = m)}
\* the handler's find returns exactly these diaries of the store it reads
C1_Find ==
  \A r \in ListSlots :
    listReq[r].pc = "find" /\ listReq'[r].pc # "find" =>
      {listReq'[r].items[i].d : i \in 1..Len(listReq'[r].items)} =
        {D \in diaries :
           Visible(D, listReq[r].viewer) /\
           (listReq[r].mood \in {Absent, Empty, "all"} \/
            D.mood = listReq[r].mood)}
\* nothing private of another user is in a response to a non-admin viewer
C1_Returned ==
  \A r \in ListSlots : \A D \in Listed(r) :
    /\ Visible(D, listReq[r].viewer)
    /\ listReq[r].mood \in Moods => D.mood = listReq[r].mood
C1_Listing == [](C1_Query /\ C1_Returned) /\ [][C1_Find]_vars
\* a finished listing for a member that holds the member's own private diary
\* and leaves out the stored private diary of the other member
C1_Witness ==
  \E r \in ListSlots :
    /\ listReq[r].pc = "done"
    /\ listReq[r].viewer \in Members
    /\ \E D \in Listed(r) : D.is_private = 1 /\ D.user = listReq[r].viewer
    /\ \E D \in diaries : /\ D.is_private = 1
                           /\ D.user # listReq[r].viewer
                           /\ D \notin Listed(r)

\* C2: userDetail of a stored user sends neither the credential nor the
\* network address to a viewer other than "admin" (an absent viewer too), and
\* sends both to "admin".
C2_Redaction ==
  \A r \in DetailSlots :
    detailReq[r].pc = "done" /\ detailReq[r].targetUser # Null =>
      \A b \in detailReq[r].res :
        IF detailReq[r].viewer = Admin
        THEN b.password # Absent /\ b.ip_address # Absent
        ELSE b.password = Absent /\ b.ip_address = Absent
\* The hashed-credential file alone keeps C2.
C2_RedactionPart000 == variant = "part_000" => C2_Redaction

\* ------------------------------------------------------------------ C11
\* what the register handler stores for a supplied secret
CredentialOf(secret) == IF variant = "part_000" THEN Hash(secret) ELSE secret
LoginOutcome(U, username, password) ==
  IF ~Registered(U, username) THEN UnknownUser
  ELSE IF \E x \in U : /\ x.username = username
                       /\ x.password = CredentialOf(password)
  THEN LoggedIn(username)
  ELSE WrongPassword
C11_Answered == \A r \in LoginSlots : loginReq[r].pc # "unhandled"
C11_Outcome ==
  \A r \in LoginSlots :
    loginReq[r].pc \notin Ended /\ loginReq'[r].pc \in Ended =>
      /\ loginReq'[r].pc = "done"
      /\ loginReq'[r].res =
           LoginOutcome(users, loginReq[r].username, loginReq[r].password)
C11_Frame == loginReq' # loginReq => UNCHANGED store
\* C11: login answers with the unknown-identity error iff no User has the
\* username, with the invalid-credential error iff the User exists and the
\* secret is not the one supplied at registration, otherwise with success and
\* the stored username; every login step leaves all collections unchanged.
C11_Login == [][C11_Outcome /\ C11_Frame]_vars
\* src/server.js alone keeps C11.
C11_LoginServerJs == [][variant = "server.js" => C11_Outcome /\ C11_Frame]_vars
\* part_000: a login without a password for a registered user ends unanswered
C11_Unanswered ==
  \E r \in LoginSlots :
    /\ variant = "part_000"
    /\ loginReq[r].pc = "unhandled"
    /\ loginReq[r].password = Absent
    /\ Registered(users, loginReq[r].username)

\* ------------------------------------------------------------------ C12
ReserveEnds(r) == reserveReq[r].pc \notin Ended /\ reserveReq'[r].pc \in Ended
ReserveArrives(r) == reserveReq[r].pc \in Ended /\ reserveReq' # reserveReq
C12_Refused ==
  \A r \in ReserveSlots :
    ReserveArrives(r) /\ (NoText(reserveReq'[r].text) \/
                          NoValue(reserveReq'[r].date)) =>
      /\ reserveReq'[r].pc = "done"
      /\ reserveReq'[r].res = NotEnough
      /\ UNCHANGED questions
C12_Created ==
  \A r \in ReserveSlots :
    /\ ReserveArrives(r) => UNCHANGED questions
    /\ ReserveArrives(r) /\ ~NoText(reserveReq'[r].text)
         /\ ~NoValue(reserveReq'[r].date) => reserveReq'[r].pc = "create"
    /\ ReserveEnds(r) =>
         /\ reserveReq'[r].res = Reserved
         /\ \E q \in questions' :
              /\ q \notin questions
              /\ questions' = questions \cup {q}
              /\ q.text = reserveReq[r].text
              /\ \A x \in questions : x._id < q._id
\* C12: reserveQuestion with the text or the date missing answers with a
\* validation error, creates no Question and does not end in an unhandled
\* exception; with both present it creates exactly one Question.
C12_Reserve ==
  /\ [](\A r \in ReserveSlots : reserveReq[r].pc # "unhandled")
  /\ [][C12_Refused /\ C12_Created]_vars
\* src/server.js alone keeps C12.
C12_ReserveServerJs ==
  /\ [](variant = "server.js" =>
          \A r \in ReserveSlots : reserveReq[r].pc # "unhandled")
  /\ [][variant = "server.js" => C12_Refused /\ C12_Created]_vars
\* part_000: a question without a text is stored
C12_TextlessQuestion ==
  variant = "part_000" /\ \E q \in questions : q.text = Absent
\* part_000: a reservation without a date ends unanswered
C12_Unanswered ==
  \E r \in ReserveSlots :
    /\ variant = "part_000"
    /\ reserveReq[r].pc = "unhandled" /\ reserveReq[r].date = NoDate

\* ------------------------------------------------------------------ C13
IdsOf(f) == [i \in 1..Len(f) |-> f[i]._id]
Descending(ids) == \A i, j \in 1..Len(ids) : i < j => ids[i] > ids[j]
Ascending(ids) == \A i, j \in 1..Len(ids) : i < j => ids[i] < ids[j]
Precedes(ids, x, y) ==
  \E i, j \in 1..Len(ids) : i < j /\ ids[i] = x /\ ids[j] = y
C13_Sorted ==
  \A V \in Viewers, m \in MoodFilters, sort \in Sorts :
    \A ids \in {IdsOf(Diary_find(diaries, listQuery(V, m), sort))} :
      IF sort = "oldest" THEN Ascending(ids) ELSE Descending(ids)
C13_Reverses ==
  \A V \in Viewers, m \in MoodFilters, sort \in Sorts \ {"oldest"} :
    \A up \in {Diary_find(diaries, listQuery(V, m), "oldest")},
       down \in {Diary_find(diaries, listQuery(V, m), sort)} :
      /\ Len(up) = Len(down)
      /\ \A i \in 1..Len(up) : up[i] = down[Len(up) + 1 - i]
C13_Response ==
  \A r \in ListSlots :
    LET ids == [i \in 1..Len(listReq[r].items) |-> listReq[r].items[i].d._id]
    IN IF listReq[r].sort = "oldest" THEN Ascending(ids) ELSE Descending(ids)
C13_EditKeepsPlace ==
  diaries' # diaries =>
    \A V \in Viewers, sort \in Sorts :
      \A before \in {IdsOf(Diary_find(diaries, listQuery(V, Absent), sort))},
         after \in {IdsOf(Diary_find(diaries', listQuery(V, Absent), sort))} :
        \A x \in OrderIds, y \in OrderIds :
          ~(Precedes(before, x, y) /\ Precedes(after, y, x))
\* C13: listDiaries returns the matching diaries newest first by default and
\* for every sort value other than "oldest", oldest first for "oldest"; the
\* two results are exact reverses over one store state; an edit never changes
\* the place of a diary relative to the others.
C13_Order ==
  /\ [](C13_Sorted /\ C13_Reverses /\ C13_Response)
  /\ [][C13_EditKeepsPlace]_vars
\* a finished default listing of three diaries, newest first, taken after the
\* middle one was edited
C13_Witness ==
  \E r \in ListSlots :
    /\ listReq[r].pc = "done"
    /\ listReq[r].sort = Absent
    /\ Len(listReq[r].items) = 3
    /\ listReq[r].items[1].d._id = 3
    /\ listReq[r].items[2].d._id = 2
    /\ listReq[r].items[2].d.content = "c1"
    /\ listReq[r].items[3].d._id = 1

\* ------------------------------------------------------------------ C14
ListEnds(r) == listReq[r].pc \notin Ended /\ listReq'[r].pc = "done"
C14_Counts ==
  \A r \in ListSlots :
    ListEnds(r) =>
      \A i \in 1..Len(listReq'[r].items) :
        LET it == listReq'[r].items[i]
        IN /\ it.like_count =
                Cardinality({l \in likes : l.diary_id = it.d._id})
           /\ it.is_liked <=>
                \E l \in likes : /\ l.diary_id = it.d._id
                                 /\ l.user = listReq[r].viewer
\* C14: with no write running beside it, listDiaries(V) gives every returned
\* diary D a like_count equal to the number of Likes whose diary_id is D and
\* an is_liked that is true iff a Like for (D, V) is stored; likes of other
\* diaries and of other users do not count.
C14_Decoration == [][C14_Counts]_vars
\* bob's finished listing: diary 1 liked by both members, diary 2 by alice only
C14_Witness ==
  \E r \in ListSlots :
    /\ listReq[r].pc = "done" /\ listReq[r].viewer = "bob"
    /\ Len(listReq[r].items) = 2
    /\ \E i, j \in 1..2 :
         /\ listReq[r].items[i].d._id = 1
         /\ listReq[r].items[i].like_count = 2
         /\ listReq[r].items[i].is_liked
         /\ listReq[r].items[j].d._id = 2
         /\ listReq[r].items[j].like_count = 1
         /\ ~listReq[r].items[j].is_liked

\* ------------------------------------------------------------------ C15
AnswersBy(A, u) == {a \in A : a.user = u}
\* One whole answerHistory call over the questions in the order f.
answerHistory(f, A, u) ==
  [i \in 1..Len(f) |->
     [q_id |-> f[i]._id, q_text |-> f[i].text, q_date |-> f[i].date,
      my_answer |-> IF Answer_findOne(A, f[i]._id, u) # Null
                    THEN The(Answer_findOne(A, f[i]._id, u)).content
                    ELSE NoAnswer]]
C15_OnePerQuestion ==
  \A r \in HistorySlots :
    historyReq[r].pc = "find" /\ historyReq'[r].pc # "find" =>
      /\ Len(historyReq'[r].items) = Cardinality(questions)
      /\ \A q \in questions :
           \E i \in 1..Len(historyReq'[r].items) :
             /\ historyReq'[r].items[i].q_id = q._id
             /\ historyReq'[r].items[i].q_text = q.text
             /\ historyReq'[r].items[i].q_date = q.date
C15_OwnAnswer ==
  \A r \in HistorySlots, i \in HistoryAsked :
    /\ i \in 1..Len(historyReq[r].items)
    /\ historyReq[r].pc = "answers"
    /\ historyReq[r].items[i].pc = "findOne"
    /\ historyReq'[r].items[i].pc = "done"
    => LET mine == {a \in answers :
                      /\ a.user = historyReq[r].username
                      /\ a.question_id = historyReq[r].items[i].q_id}
       IN IF mine = {}
          THEN historyReq'[r].items[i].my_answer = NoAnswer
          ELSE \E a \in mine :
                 /\ historyReq'[r].items[i].my_answer = a.content
                 /\ \A b \in mine : a._id <= b._id
C15_Independent ==
  \A u \in Members : \A f \in Question_find(questions) :
    answerHistory(f, answers, u) = answerHistory(f, AnswersBy(answers, u), u)
\* C15: answerHistory(u) has exactly one entry per existing Question; an
\* entry's answer is the content of an Answer that u wrote for that question,
\* or the no-answer marker when u wrote none; the result is the same in two
\* stores that differ only in answers of other users (it is the result over
\* u's answers alone).
C15_History ==
  /\ [](C15_Independent)
  /\ [][C15_OnePerQuestion /\ C15_OwnAnswer]_vars
\* alice's finished history: her answer to the later question first, then the
\* no-answer marker for the question that only bob answered
C15_Witness ==
  \E r \in HistorySlots :
    /\ historyReq[r].pc = "done" /\ historyReq[r].username = "alice"
    /\ Len(historyReq[r].items) = 2
    /\ historyReq[r].items[1].q_id = 2
    /\ historyReq[r].items[1].my_answer = "c1"
    /\ historyReq[r].items[2].q_id = 1
    /\ historyReq[r].items[2].my_answer = NoAnswer
    /\ \E a \in answers : a.user = "bob" /\ a.question_id = 1

\* ------------------------------------------------------------------ C16
C16_Newest ==
  \A r \in NoticeSlots :
    noticeReq[r].pc = "findOne" /\ noticeReq'[r].pc = "done" =>
      /\ notices = {} => noticeReq'[r].res = {}
      /\ notices # {} =>
           \E n \in notices :
             /\ noticeReq'[r].res = {n}
             /\ \A m \in notices : m._id <= n._id
C16_AtMostOne ==
  \A r \in NoticeSlots : Cardinality(noticeReq[r].res) <= 1
\* C16: after any sequence of postNotice and deleteNotice, listNotices
\* returns exactly one notice, the one created last among those still stored,
\* and an empty object when none is stored; never more than one.
C16_Latest == [](C16_AtMostOne) /\ [][C16_Newest]_vars
\* the newest notice was deleted and the listing returns the one before it,
\* although an older one is still stored
C16_Witness ==
  \E r \in NoticeSlots :
    /\ noticeReq[r].pc = "done"
    /\ nextId.notice = 4
    /\ {n._id : n \in notices} = {1, 2}
    /\ \E n \in noticeReq[r].res : n._id = 2

\* ------------------------------------------------------------------ C17
ProfileWrites(r) ==
  profileReq[r].pc = "updateOne" /\ profileReq'[r].pc = "done"
OtherCollections ==
  <<diaries, comments, likes, answers, questions, notices, nextId>>
C17_Overwrites ==
  \A r \in ProfileSlots :
    ProfileWrites(r) =>
      \A x \in users :
        IF x.username # profileReq[r].username THEN x \in users'
        ELSE \E y \in users' :
          /\ y._id = x._id /\ y.username = x.username
          /\ y.password = x.password /\ y.created_at = x.created_at
          /\ y.ip_address = x.ip_address
          /\ y.display_name = IF profileReq[r].display_name # Absent
                              THEN profileReq[r].display_name
                              ELSE x.display_name
          /\ y.bio = IF profileReq[r].bio # Absent THEN profileReq[r].bio
                     ELSE x.bio
          /\ y.profile_img = IF profileReq[r].file # NoFile
                             THEN bufferToBase64(profileReq[r].file)
                             ELSE x.profile_img
C17_CreatesNone ==
  \A r \in ProfileSlots :
    profileReq' # profileReq =>
      /\ UNCHANGED OtherCollections
      /\ Cardinality(users') = Cardinality(users)
      /\ {x.username : x \in users'} = {x.username : x \in users}
      /\ ~ProfileWrites(r) => UNCHANGED users
      /\ ~Registered(users, profileReq[r].username) => UNCHANGED users
\* C17: updateProfile overwrites the named user's display name and bio (a
\* field sent without a value keeps the stored one), replaces the avatar only
\* when a file is uploaded, and leaves unchanged that user's username,
\* credential, creation time and address, every other User and every other
\* collection; for a username that is not stored it creates no User.
C17_Profile == [][C17_Overwrites /\ C17_CreatesNone]_vars
\* alice's profile after an update with an uploaded file, then one without:
\* the data URL of the file is still her avatar
C17_Witness ==
  \E r \in ProfileSlots :
    /\ profileReq[r].pc = "done"
    /\ profileReq[r].username = "alice" /\ profileReq[r].file = NoFile
    /\ profileReq[r].bio = "b2"
    /\ \E x \in users :
         /\ x.username = "alice" /\ x.bio = "b2" /\ x.display_name = "n1"
         /\ x.profile_img = "data:image/png;base64,aGk="
         /\ x.password \in {"pw1", Hash("pw1")} /\ x.ip_address = "10.0.0.1"

\* ------------------------------------------------------------------ C18
C18_Kept ==
  \A x \in users :
    \E y \in users' : /\ y._id = x._id /\ y.username = x.username
                      /\ y.password = x.password
C18_OnlyProfileModifies ==
  (\E x \in users : x \notin users') => \E r \in ProfileSlots : ProfileWrites(r)
C18_OnlyRegisterAdds ==
  (\E y \in users' : ~Registered(users, y.username)) =>
    \E r \in RegSlots : RegisterEnds(r) /\ regReq'[r].res = Ok200
\* C18: across every step the set of stored usernames never shrinks and a
\* stored User keeps its username and credential; no operation deletes a
\* User, only updateProfile modifies a User record (and only register adds
\* one).
C18_UsersStay ==
  [][C18_Kept /\ C18_OnlyProfileModifies /\ C18_OnlyRegisterAdds]_vars
\* bob has registered, alice's profile was rewritten, a second registration
\* of alice was refused, and alice still logs in with her first credential
C18_Witness ==
  /\ \E x \in users : x.username = "bob"
  /\ \E x \in users : /\ x.username = "alice" /\ x.display_name = "n1"
                      /\ x.password = CredentialOf("pw1")
  /\ regReq[1].pc = "done" /\ regReq[1].username = "alice"
  /\ regReq[1].res = Err400
  /\ \E r \in LoginSlots :
       /\ loginReq[r].pc = "done" /\ loginReq[r].username = "alice"
       /\ loginReq[r].res = LoggedIn("alice")
  /\ \E r \in InfoSlots :
       /\ infoReq[r].pc = "done"
       /\ \E b \in infoReq[r].res : b.username = "bob" /\ b.password = Absent

\* ------------------------------------------------------------------ C19
DiaryExists(id) == \E d \in diaries : d._id = id
NoneFailed ==
  /\ \A r \in DOMAIN likeReq : likeReq[r].pc \in {"idle", "done"}
  /\ \A r \in DOMAIN delReq : delReq[r].pc \in {"idle", "done"}
\* C19: in every reachable state with no request in flight, reached by
\* addComment, toggleLike and deleteDiary requests that all ran to completion,
\* every Comment and every Like names a Diary that exists.
C19_Referential ==
  Quiet /\ NoneFailed =>
    /\ \A c \in comments : DiaryExists(c.diary_id)
    /\ \A l \in likes : DiaryExists(l.diary_id)
\* a comment added after the delete of its diary has completed
C19_OrphanComment ==
  /\ Quiet /\ NoneFailed
  /\ \E r \in DelSlots : delReq[r].pc = "done"
  /\ \E c \in comments : ~DiaryExists(c.diary_id)
\* a like toggled on after the delete of its diary has completed
C19_OrphanLike ==
  /\ Quiet /\ NoneFailed
  /\ \E r \in DelSlots : delReq[r].pc = "done"
  /\ \E l \in likes : ~DiaryExists(l.diary_id)

\* ------------------------------------------------------------------ C20
LikeResponds(r) == likeReq[r].pc = "respond" /\ likeReq'[r].pc = "done"
\* C20: under any interleaving of toggleLike requests for one (diary, user),
\* a request that responds liked = true leaves a Like for the pair in the
\* store at that moment, and one that responds liked = false leaves none.
C20_ResponseAgrees ==
  [][\A r \in Slots :
       LikeResponds(r) =>
         /\ likeReq'[r].res = {[liked |-> TRUE]} =>
              Liked(likes', likeReq[r].diary_id, likeReq[r].user)
         /\ likeReq'[r].res = {[liked |-> FALSE]} =>
              ~Liked(likes', likeReq[r].diary_id, likeReq[r].user)]_vars
\* a request has created its Like and waits to be resumed, and the Like is
\* gone already: its next step sends liked = true for a pair with no Like
C20_LikeGoneBeforeAnswer ==
  \E r \in Slots :
    /\ likeReq[r].pc = "respond" /\ likeReq[r].exists = Null
    /\ ~Liked(likes, likeReq[r].diary_id, likeReq[r].user)
\* a request has answered liked = false after deleting nothing: the Like it
\* had read was gone and a newer Like of the pair is stored
C20_StaleUnlike ==
  \E r \in Slots :
    /\ likeReq[r].pc = "done" /\ likeReq[r].res = {[liked |-> FALSE]}
    /\ \E e \in likeReq[r].exists :
         /\ e \notin likes
         /\ \E l \in likes : /\ l.diary_id = e.diary_id /\ l.user = e.user
                             /\ l._id > e._id

\* ------------------------------------------------------------------ C21
\* C21: every decorated diary that listDiaries returns is consistent also
\* when toggleLike or deleteDiary requests run between its lookups: an item
\* with is_liked = true has like_count >= 1.
C21_Consistent ==
  \A r \in ListSlots :
    listReq[r].pc = "done" =>
      \A i \in 1..Len(listReq[r].items) :
        listReq[r].items[i].is_liked => listReq[r].items[i].like_count >= 1
\* a listing was sent with an item that the viewer likes and that counts no
\* like: the viewer's Like was created after the count was read
C21_LikedButUncounted ==
  \E r \in ListSlots :
    /\ listReq[r].pc = "done"
    /\ \E i \in 1..Len(listReq[r].items) :
         /\ listReq[r].items[i].is_liked
         /\ listReq[r].items[i].like_count = 0
         /\ \E l \in likes : /\ l.diary_id = listReq[r].items[i].d._id
                             /\ l.user = listReq[r].viewer

\* ------------------------------------------------------------------ C22
AnswerSucceeds(r) == ansReq[r].pc = "respond" /\ ansReq'[r].pc = "done"
\* what answerHistory(u) and listAnswers(q) report for (q, u) over the store
\* A equals the content c
ReadsBack(A, U, Q, q, u, c) ==
  /\ \A f \in Question_find(Q) :
       \A i \in 1..Len(f) :
         f[i]._id = q => answerHistory(f, A, u)[i].my_answer = c
  /\ \A i \in 1..Len(listAnswers(A, U, q)) :
       listAnswers(A, U, q)[i].user = u => listAnswers(A, U, q)[i].content = c
C22_ReadsOwnWrite ==
  \A r \in Slots :
    AnswerSucceeds(r) =>
      ReadsBack(answers', users', questions', ansReq[r].question_id,
                ansReq[r].user, ansReq[r].content)
\* C22: once submitAnswer(q, u, c) has reported success, and until a later
\* submitAnswer for (q, u) completes, answerHistory(u) reports c for q and
\* every record of u that listAnswers(q) returns has content c, after any
\* interleaving of submitAnswer requests for (q, u).
C22_ReadYourWrites == [][C22_ReadsOwnWrite]_vars
\* two requests of one pair have both created: the later one answered with
\* its record stored second, and the first match still has the other content
C22_ShadowedAnswer ==
  \E r \in Slots : \E a, b \in answers :
    /\ ansReq[r].pc = "done" /\ ansReq[r].exists = Null
    /\ a.question_id = ansReq[r].question_id /\ a.user = ansReq[r].user
    /\ b.question_id = a.question_id /\ b.user = a.user
    /\ a._id < b._id
    /\ b.content = ansReq[r].content /\ a.content # b.content
    /\ \A s \in Slots : ansReq[s].pc \in Ended

\* ------------------------------------------------------------------ C23
EditUpdates(r) == editReq[r].pc = "update" /\ editReq'[r].pc = "done"
C23_OnlyThreeFields ==
  \A r \in EditSlots :
    EditUpdates(r) =>
      /\ {d._id : d \in diaries'} = {d._id : d \in diaries}
      /\ \A d \in diaries : \E e \in diaries' :
           /\ e._id = d._id /\ e.user = d.user /\ e.image = d.image
           /\ e.date = d.date
           /\ d._id # editReq[r].id => e = d
      /\ \A sort \in Sorts :
           IdsOf(Diary_find(diaries', listQuery(Admin, Absent), sort))
             = IdsOf(Diary_find(diaries, listQuery(Admin, Absent), sort))
      /\ UNCHANGED <<users, comments, likes, answers, questions, notices,
                     nextId>>
C23_MissingIdNoChange ==
  \A r \in EditSlots :
    EditUpdates(r) /\ (\A d \in diaries : d._id # editReq[r].id) =>
      UNCHANGED store
\* C23: PUT /diary/:id changes only that diary's content, mood and privacy
\* flag: its owner, image, place in the creation order and date, the Likes
\* and Comments that name it and every other diary stay as they were; for an
\* id that no diary has, no diary is created and nothing changes.
C23_EditFrame == [][C23_OnlyThreeFields /\ C23_MissingIdNoChange]_vars
\* diary 1 was edited (content, mood and flag rewritten) and still has its
\* owner, image and date, with its like and comment stored; diary 2 is as it
\* was written
C23_Witness ==
  \E r \in EditSlots :
    /\ editReq[r].pc = "done" /\ editReq[r].id = 1
    /\ \E d \in diaries :
         /\ d._id = 1 /\ d.content = "c2" /\ d.mood = "sad" /\ d.is_private = 1
         /\ d.user = "alice" /\ d.image = bufferToBase64(Picture)
         /\ d.date = Yesterday
    /\ \E l \in likes : l.diary_id = 1
    /\ \E c \in comments : c.diary_id = 1
    /\ \E e \in diaries : e._id = 2 /\ e \in EditDiaries
\* an edit of id 3, which no diary has, was answered and the collection is
\* the one that was written
C23_MissingIdEdited ==
  \E r \in EditSlots :
    /\ editReq[r].pc = "done" /\ editReq[r].id = 3
    /\ editReq[r].res = {[success |-> TRUE]}
    /\ diaries = EditDiaries

====
